---- MODULE Spec2Model ----
(***************************************************************************)
(* bNotify daemon (bnotifyd, bolt-backed variant): the durable queue of    *)
(* pending messages, the sequence allocator and the per-message retrying   *)
(* dispatcher goroutines, together with process crashes and restarts.      *)
(***************************************************************************)
EXTENDS Integers, Sequences, FiniteSets, TLC

\* ---------------------------------------------------------------- bounds
\* Sequence numbers the RPC callers allocate in Spec.
MaxSeq == 2
\* Faults the environment injects: failing store transactions in every
\* specification and, in Spec, also kills and failing gateway calls.
MaxFaults == 1

\* Consecutive sequence numbers offered to UsedSequences on each side of 2^63.
Span == 3
\* Notifications the receiver shows.
MaxShown == 3
\* getServerIDAndSeq(true) calls that the callers of the file-based daemon start.
MaxCalls == 3
\* Server IDs that the file-based daemon generates.
MaxIDs == 3

\* ------------------------------------------------------ program constants
serverIDSize == 16
aesKeySize == 16
pbkdfIterCount == 400000
\* The tag length, in bytes, of the AEAD cipher.NewGCMWithNonceSize returns.
gcmTagSize == 16

\* The receiver's constants.
AES_KEY_SIZE == 16
GCM_OVERHEAD_SIZE == 16
PBKDF2_ITERATION_COUNT == 400000

\* The backoff schedule, in seconds.
waits == <<0, 1, 2, 4, 8, 16, 60, 120, 240, 480, 960>>

\* ------------------------------------------------------------ input sets
Titles == {"", "T"}
Texts == {"", "X"}
Notifications == [title : Titles, text : Texts]

\* rand.Read(serverID): the n-th server ID the daemon generates; random IDs
\* of 16 bytes do not repeat.
RandomID(n) == [i \in 1..serverIDSize |-> n]

\* The sequence numbers of the model.
Seqs == 1..MaxSeq

\* ------------------------------------------------------- pure operators
RECURSIVE ShiftRight(_, _)
ShiftRight(v, k) == IF k = 0 THEN v ELSE ShiftRight(v \div 256, k - 1)

\* binary.BigEndian.PutUint64: 8 bytes, most significant first.
PutUint64(v) == [i \in 1..8 |-> ShiftRight(v, 8 - i) % 256]

RECURSIVE Uint64From(_, _)
Uint64From(b, n) == IF n = 0 THEN 0 ELSE Uint64From(b, n - 1) * 256 + b[n]

\* binary.BigEndian.Uint64.
Uint64(b) == Uint64From(b, 8)

NonceNoSeq(serverID, seq) == serverID \o PutUint64(0)

NonceLowBits(serverID, seq) == serverID \o PutUint64(seq \div 4)

\* nonce = serverID || seq.
Nonce(serverID, seq) == serverID \o PutUint64(seq)

\* PBKDF2: the derived key is determined by the password, the salt, the
\* iteration count, the key length in bytes and the hash, and two different
\* inputs do not give the same key.
Pbkdf2(password, salt, iterations, keyLen, hash) ==
    [password |-> password, salt |-> salt, iterations |-> iterations,
     keyLen |-> keyLen, hash |-> hash]

\* The settings file of the daemon and the preferences of the receiver.
Settings == [password |-> "pw", registrationId |-> "reg"]

\* main: the key of the daemon's cipher.
DaemonKey ==
    Pbkdf2(Settings.password, Settings.registrationId, pbkdfIterCount, aesKeySize, "sha1")

\* AES-GCM sealing: the ciphertext is determined by the key, the nonce and
\* the plaintext and carries a tag of tagBits bits; flipped holds the bits
\* changed since the sealing.
Seal(key, nonce, plaintext) ==
    [key |-> key, nonce |-> nonce, plaintext |-> plaintext,
     tagBits |-> 8 * gcmTagSize, flipped |-> {}]

\* One bit of a ciphertext changed in transit.
FlipBit(ciphertext, bit) ==
    [ciphertext EXCEPT !.flipped = IF bit \in @ THEN @ \ {bit} ELSE @ \cup {bit}]

OpenAnyKey(key, tagBits, nonce, ciphertext) ==
    IF ciphertext.nonce = nonce /\ ciphertext.tagBits = tagBits /\ ciphertext.flipped = {}
    THEN [ok |-> TRUE, plaintext |-> ciphertext.plaintext]
    ELSE [ok |-> FALSE, plaintext |-> <<>>]

\* cipher.init(DECRYPT_MODE, key, spec) and cipher.doFinal(ciphertext): the
\* plaintext when key, nonce and tag length are those of the sealing and no
\* bit was changed, a BadPaddingException otherwise.
Open(key, tagBits, nonce, ciphertext) ==
    IF /\ ciphertext.key = key
       /\ ciphertext.nonce = nonce
       /\ ciphertext.tagBits = tagBits
       /\ ciphertext.flipped = {}
    THEN [ok |-> TRUE, plaintext |-> ciphertext.plaintext]
    ELSE [ok |-> FALSE, plaintext |-> <<>>]

ValidateTitleOnly(n) ==
    IF n.title = "" THEN "notification missing title" ELSE ""

\* The request checks of SendNotification; "" when the request passes.
Validate(n) ==
    IF n.title = "" THEN "notification missing title"
    ELSE IF n.text = "" THEN "notification missing text"
    ELSE ""

\* ------------------------------------------------- Java long (64 bits)
\* A long is its 8 bytes, most significant first: the bytes PutUint64 writes
\* for the uint64 field of the message.
Long(v) == PutUint64(v)

\* 2^63 + v and 2^63 - 1: the smallest negative longs and the largest
\* positive one.
HighLong(v) == [Long(v) EXCEPT ![1] = 128]
MaxLong == [i \in 1..8 |-> IF i = 1 THEN 127 ELSE 255]

RECURSIVE CompareBytes(_, _, _)
CompareBytes(a, b, i) ==
    IF i > 8 THEN 0
    ELSE IF a[i] < b[i] THEN -1
    ELSE IF a[i] > b[i] THEN 1
    ELSE CompareBytes(a, b, i + 1)

\* long ^ Long.MIN_VALUE.
Flip(a) == [a EXCEPT ![1] = (@ + 128) % 256]

\* UnsignedLongs.compare(a, b).
UnsignedCompare(a, b) == CompareBytes(a, b, 1)

\* The comparison behind Java's <, <=, >= on two longs: two's complement.
SignedCompare(a, b) == CompareBytes(Flip(a), Flip(b), 1)

RECURSIVE PlusOneFrom(_, _)
PlusOneFrom(a, i) ==
    IF i = 0 THEN a
    ELSE IF a[i] = 255 THEN PlusOneFrom([a EXCEPT ![i] = 0], i - 1)
    ELSE [a EXCEPT ![i] = @ + 1]

\* value + 1 on a long, wrapping.
PlusOne(a) == PlusOneFrom(a, 8)

RECURSIVE MinusOneFrom(_, _)
MinusOneFrom(a, i) ==
    IF i = 0 THEN a
    ELSE IF a[i] = 0 THEN MinusOneFrom([a EXCEPT ![i] = 255], i - 1)
    ELSE [a EXCEPT ![i] = @ - 1]

\* value - 1 on a long, wrapping.
MinusOne(a) == MinusOneFrom(a, 8)

\* ------------------------------------------------------- UsedSequences
\* The TreeSet<Range> is the sequence of its ranges in the order of its
\* comparator, Range.compareTo: UnsignedLongs.compare on min.
EmptyTree == <<>>

\* new Range(min, max); checkState fails on min > max (unsigned).
RangeOK(min, max) == UnsignedCompare(min, max) <= 0

\* usedSeqs.floor(range): the index of the greatest element that compares
\* less than or equal to range, 0 for null.
Floor(t, range) ==
    LET S == {i \in 1..Len(t) : UnsignedCompare(t[i].min, range.min) <= 0}
    IN  IF S = {} THEN 0
        ELSE CHOOSE i \in S : \A j \in S : UnsignedCompare(t[j].min, t[i].min) <= 0

\* usedSeqs.ceiling(range): the index of the least element that compares
\* greater than or equal to range, 0 for null.
Ceiling(t, range) ==
    LET S == {i \in 1..Len(t) : UnsignedCompare(t[i].min, range.min) >= 0}
    IN  IF S = {} THEN 0
        ELSE CHOOSE i \in S : \A j \in S : UnsignedCompare(t[j].min, t[i].min) >= 0

\* usedSeqs.remove(element).
TreeRemove(t, i) == [j \in 1..(Len(t) - 1) |-> IF j < i THEN t[j] ELSE t[j + 1]]

\* usedSeqs.add(range): no change when an element compares equal, else the
\* range is put at its place in the order.
TreeAdd(t, range) ==
    IF \E i \in 1..Len(t) : UnsignedCompare(t[i].min, range.min) = 0 THEN t
    ELSE LET n == Cardinality({i \in 1..Len(t) :
                                  UnsignedCompare(t[i].min, range.min) < 0})
         IN  [j \in 1..(Len(t) + 1) |->
                 IF j <= n THEN t[j] ELSE IF j = n + 1 THEN range ELSE t[j - 1]]

UseNoMerge(t, value) ==
    IF \E i \in 1..Len(t) : UnsignedCompare(t[i].min, value) <= 0
                            /\ UnsignedCompare(value, t[i].max) <= 0
    THEN [usedSeqs |-> t, result |-> "false"]
    ELSE [usedSeqs |-> TreeAdd(t, [min |-> value, max |-> value]), result |-> "true"]

\* use, lines 112-117: the range [min, max] is added after the merges.
UseAdd(t, value, min, max) ==
    IF (min # value \/ max # value) /\ ~RangeOK(min, max)
    THEN [usedSeqs |-> t, result |-> "IllegalStateException"]
    ELSE [usedSeqs |-> TreeAdd(t, [min |-> min, max |-> max]), result |-> "true"]

UseCeilingDrops(t, value, min, c) ==
    IF c # 0 /\ SignedCompare(t[c].min, value) <= 0
    THEN [usedSeqs |-> TreeRemove(t, c), result |-> "false"]
    ELSE IF c # 0 /\ MinusOne(t[c].min) = value
    THEN UseAdd(TreeRemove(t, c), value, min, t[c].max)
    ELSE UseAdd(t, value, min, value)

\* use, lines 102-110: c is the ceiling of the value in the set the floor
\* step left, 0 for null.  The test ceiling.min <= value is one on longs.
UseCeiling(t, value, min, c) ==
    IF c # 0 /\ SignedCompare(t[c].min, value) <= 0
    THEN [usedSeqs |-> t, result |-> "false"]
    ELSE IF c # 0 /\ MinusOne(t[c].min) = value
    THEN UseAdd(TreeRemove(t, c), value, min, t[c].max)
    ELSE UseAdd(t, value, min, value)

\* use, lines 86-100: f is the floor of the value, 0 for null.  The test
\* floor.max >= value is one on longs; an adjacent floor is removed before
\* the ceiling is looked up.
UseFloor(t, value, f) ==
    IF f # 0 /\ SignedCompare(t[f].max, value) >= 0
    THEN [usedSeqs |-> t, result |-> "false"]
    ELSE IF f # 0 /\ PlusOne(t[f].max) = value
    THEN UseCeiling(TreeRemove(t, f), value, t[f].min,
                    Ceiling(TreeRemove(t, f), [min |-> value, max |-> value]))
    ELSE UseCeiling(t, value, value, Ceiling(t, [min |-> value, max |-> value]))

\* UsedSequences.use(value): the set after the call and what the call
\* returned; "IllegalStateException" when new Range(min, max) refuses.
Use(t, value) == UseFloor(t, value, Floor(t, [min |-> value, max |-> value]))

\* UsedSequences.toProto(): the ranges are collected in seqRanges, but what
\* is returned is the builder, to which nothing was added.
ToProto(t) ==
    LET seqRanges == t
        seqRangesBuilder == <<>>
    IN  seqRangesBuilder

\* UsedSequences.fromProto(seqRanges): the set read from a list; not ok
\* when a checkState fails with an IllegalStateException.
RECURSIVE FromProtoFrom(_, _, _)
FromProtoFrom(seqRanges, i, usedSeqs) ==
    IF i > Len(seqRanges) THEN [ok |-> TRUE, usedSeqs |-> usedSeqs]
    ELSE LET cur == seqRanges[i]
         IN  IF ~RangeOK(cur.min, cur.max)
             THEN [ok |-> FALSE, usedSeqs |-> EmptyTree]
             ELSE IF i > 1 /\ ~(UnsignedCompare(PlusOne(seqRanges[i - 1].max), cur.min) < 0)
             THEN [ok |-> FALSE, usedSeqs |-> EmptyTree]
             ELSE FromProtoFrom(seqRanges, i + 1, TreeAdd(usedSeqs, cur))

FromProto(seqRanges) == FromProtoFrom(seqRanges, 1, EmptyTree)

\* ------------------------------------------------------------ the receiver
\* What the gateway hands over as extras "payload": nothing, a string that
\* is not base64, or the base64 text of some bytes.  The bytes are an
\* Envelope or do not parse as one; a plaintext is a Message or does not
\* parse as one.
NoPayload == [null |-> TRUE]
NotBase64 == [text |-> "?"]
Garbage == [garbage |-> TRUE]

\* base64.StdEncoding.EncodeToString(payload) in postPayloadToGCM.
Base64Encode(bytes) == [base64 |-> bytes]

\* Base64.decode(payload, Base64.DEFAULT).
Base64Decode(payload) ==
    IF DOMAIN payload = {"null"} THEN [exception |-> "NullPointerException"]
    ELSE IF DOMAIN payload # {"base64"} THEN [exception |-> "IllegalArgumentException"]
    ELSE [exception |-> "", bytes |-> payload.base64]

\* BNotifyProtos.Envelope.parseFrom.
IsEnvelope(bytes) == DOMAIN bytes = {"message", "nonce"}

\* BNotifyProtos.Message.parseFrom.
IsMessage(bytes) == DOMAIN bytes = {"serverId", "seq", "notification"}

\* The state file of the receiver: absent, unreadable, or a ServerInfo list,
\* held as the function from server ID to its SequenceRange list.
NoServers == [sid \in {} |-> <<>>]
MissingFile == [exists |-> FALSE, parses |-> FALSE, servers |-> NoServers]
CorruptFile == [exists |-> TRUE, parses |-> FALSE, servers |-> NoServers]
StateFile(servers) == [exists |-> TRUE, parses |-> TRUE, servers |-> servers]

\* The cached key file.
NoKey == [exists |-> FALSE, key |-> <<>>]

\* getKey: the cached key when the cache file can be read, else the key
\* derived from the preferences, which is then stored in the cache.
GetKey(cache) ==
    IF cache.exists THEN [key |-> cache.key, cache |-> cache]
    ELSE LET key == Pbkdf2(Settings.password, Settings.registrationId,
                           PBKDF2_ITERATION_COUNT, (8 * AES_KEY_SIZE) \div 8, "sha1")
         IN  [key |-> key, cache |-> [exists |-> TRUE, key |-> key]]

\* What can go wrong when the state file is read: new FileInputStream fails
\* to open a file that is there, or the read of the opened stream fails.
ReadFaults == {"none", "open", "read"}

\* getUsedSeqsByServer: the map, or null with an error notification, or an
\* IllegalStateException out of fromProto.  new FileInputStream throws a
\* FileNotFoundException when the file does not exist and when it cannot be
\* opened; the catch clause answers both with an empty map.
GetUsedSeqsByServer(file, readFault) ==
    IF ~file.exists \/ readFault = "open"
    THEN [null |-> FALSE, exception |-> "", map |-> NoServers]
    ELSE IF readFault = "read" \/ ~file.parses
    THEN [null |-> TRUE, exception |-> "", map |-> NoServers]
    ELSE IF \E sid \in DOMAIN file.servers : ~FromProto(file.servers[sid]).ok
    THEN [null |-> FALSE, exception |-> "IllegalStateException", map |-> NoServers]
    ELSE [null |-> FALSE, exception |-> "",
          map |-> [sid \in DOMAIN file.servers |->
                      FromProto(file.servers[sid]).usedSeqs]]

WriteFaults == {"none", "open", "truncated", "partial"}

\* setUsedSeqsByServer: the file after the call and whether it returned
\* true.  A stream that cannot be opened leaves the file; a failing write
\* leaves an empty or a partly written file.
SetUsedSeqsByServer(file, usedSeqsByServer, writeFault) ==
    LET servers == [sid \in DOMAIN usedSeqsByServer |-> ToProto(usedSeqsByServer[sid])]
    IN  IF writeFault = "none" THEN [ok |-> TRUE, file |-> StateFile(servers)]
        ELSE IF writeFault = "open" THEN [ok |-> FALSE, file |-> file]
        ELSE IF writeFault = "truncated" THEN [ok |-> FALSE, file |-> StateFile(NoServers)]
        ELSE [ok |-> FALSE, file |-> CorruptFile]

\* checkSeq, lines 119-125: the state is written when the message is
\* allowed, and a failing write refuses it.
CheckSeqSet(file, allowMessage, set) ==
    IF ~allowMessage
    THEN [why |-> "replay", file |-> file, errors |-> 0, exception |-> ""]
    ELSE IF ~set.ok
    THEN [why |-> "unwritten", file |-> set.file, errors |-> 1, exception |-> ""]
    ELSE [why |-> "allowed", file |-> set.file, errors |-> 0, exception |-> ""]

CheckSeqUseOneServer(message, file, usedSeqsByServer, used, writeFault) ==
    LET known == message.serverId \in DOMAIN usedSeqsByServer
    IN  CheckSeqSet(file,
                    IF known THEN used.result = "true" ELSE TRUE,
                    SetUsedSeqsByServer(file,
                                        [sid \in {message.serverId} |-> used.usedSeqs],
                                        writeFault))

\* checkSeq, lines 108-117: used is what use did on the set of the server,
\* or on a new set for a server not in the map, whose result is not read.
CheckSeqUse(message, file, usedSeqsByServer, used, writeFault) ==
    LET known == message.serverId \in DOMAIN usedSeqsByServer
    IN  IF known /\ used.result = "IllegalStateException"
        THEN [why |-> "", file |-> file, errors |-> 0,
              exception |-> "IllegalStateException"]
        ELSE CheckSeqSet(file,
                         IF known THEN used.result = "true" ELSE TRUE,
                         SetUsedSeqsByServer(
                             file,
                             [sid \in (DOMAIN usedSeqsByServer) \cup {message.serverId} |->
                                 IF sid = message.serverId THEN used.usedSeqs
                                 ELSE usedSeqsByServer[sid]],
                             writeFault))

\* checkSeq, lines 103-106: got is what getUsedSeqsByServer returned.
CheckSeqGot(message, file, got, writeFault) ==
    IF got.exception # ""
    THEN [why |-> "", file |-> file, errors |-> 0, exception |-> got.exception]
    ELSE IF got.null
    THEN [why |-> "unreadable", file |-> file, errors |-> 1, exception |-> ""]
    ELSE CheckSeqUse(message, file, got.map,
                     Use(IF message.serverId \in DOMAIN got.map
                         THEN got.map[message.serverId] ELSE EmptyTree,
                         message.seq),
                     writeFault)

\* checkSeq(message): why it returned what it returned ("allowed" for true;
\* "replay", "unreadable" or "unwritten" for false), the state file after
\* the call, the error notifications shown on the way, and the exception
\* that escaped, if any.
CheckSeq(message, file, readFault, writeFault) ==
    CheckSeqGot(message, file, GetUsedSeqsByServer(file, readFault), writeFault)

\* What became of an intent: "allowed", a reason of checkSeq to refuse, a
\* caught exception that discards it, or an exception that escapes the
\* handler; the message that was decrypted, and the files after.
HandleResult(outcome, message, cache, file, errors) ==
    [outcome |-> outcome, message |-> message, cache |-> cache, file |-> file,
     errors |-> errors]

\* onHandleIntent, line 88: checked is what checkSeq returned.
HandleChecked(checked, message, cache) ==
    HandleResult(IF checked.exception # "" THEN checked.exception ELSE checked.why,
                 message, cache, checked.file, checked.errors)

\* onHandleIntent, lines 84-88: opened is what cipher.doFinal returned.
HandleOpened(opened, cache, file, readFault, writeFault) ==
    IF ~opened.ok THEN HandleResult("BadPaddingException", <<>>, cache, file, 0)
    ELSE IF ~IsMessage(opened.plaintext)
    THEN HandleResult("IOException", <<>>, cache, file, 0)
    ELSE HandleChecked(CheckSeq(opened.plaintext, file, readFault, writeFault),
                       opened.plaintext, cache)

\* onHandleIntent, lines 73-84: decoded is what Base64.decode returned and
\* got what getKey returned.
HandleDecoded(decoded, got, cache, file, readFault, writeFault) ==
    IF decoded.exception # ""
    THEN HandleResult(decoded.exception, <<>>, cache, file, 0)
    ELSE IF ~IsEnvelope(decoded.bytes)
    THEN HandleResult("IOException", <<>>, cache, file, 0)
    ELSE HandleOpened(Open(got.key, 8 * GCM_OVERHEAD_SIZE, decoded.bytes.nonce,
                           decoded.bytes.message),
                      got.cache, file, readFault, writeFault)

\* onHandleIntent up to the decision of checkSeq.
Handle(intent, cache, file, readFault, writeFault) ==
    HandleDecoded(Base64Decode(intent.payload), GetKey(cache), cache, file,
                  readFault, writeFault)

\* The message that was sealed into the envelope an intent carries.
MessageOf(intent) == intent.payload.base64.message.plaintext

\* The exceptions onHandleIntent catches, and the ones that escape it.
Caught == {"IOException", "BadPaddingException", "IllegalArgumentException"}
Escaping == {"NullPointerException", "IllegalStateException"}

\* ------------------------------------------------------------- the store
NoMessages == [k \in {} |-> 0]

\* A database file that was never opened by the daemon.
EmptyDB == [buckets |-> {}, serverID |-> <<>>, sequence |-> 0, messages |-> NoMessages]

Put(d, key, value) ==
    [d EXCEPT !.messages = [k \in (DOMAIN d.messages) \cup {key} |->
                               IF k = key THEN value ELSE d.messages[k]]]

Delete(d, key) ==
    [d EXCEPT !.messages = [k \in (DOMAIN d.messages) \ {key} |-> d.messages[k]]]

\* db.Batch / db.Update with a failing function or a failing commit: the
\* transaction is rolled back and the database is what it was.
Rollback(before, dirty) == before

TxFaults == {"none", "write", "commit"}

NextSequenceFromQueue(d) == Cardinality(DOMAIN d.messages) + 1

NextSequenceStuck(d) == IF d.sequence = 0 THEN 1 ELSE d.sequence

\* messagesBucket.NextSequence(): the bucket's counter, advanced by one.
NextSequence(d) == d.sequence + 1

EnqueueTxIgnorePutError(d, notification, fault) ==
    LET seq == NextSequence(d)
        d1 == [d EXCEPT !.sequence = seq]
        nonce == Nonce(d.serverID, seq)
        payload == [message |-> Seal(DaemonKey, nonce,
                                     [serverId |-> d.serverID, seq |-> PutUint64(seq),
                                      notification |-> notification]),
                    nonce |-> nonce]
        d2 == Put(d1, PutUint64(seq), [payload |-> payload, sendAttempts |-> 0])
    IN  IF fault = "write"
        THEN [db |-> d1, err |-> "", seq |-> seq, payload |-> payload]
        ELSE IF fault = "commit"
        THEN [db |-> d, err |-> "commit failed", seq |-> seq, payload |-> payload]
        ELSE [db |-> d2, err |-> "", seq |-> seq, payload |-> payload]

\* The transaction of SendNotification.
EnqueueTx(d, notification, fault) ==
    IF "settings" \notin d.buckets
    THEN [db |-> d, err |-> "missing settings bucket", seq |-> 0, payload |-> <<>>]
    ELSE IF d.serverID = <<>>
    THEN [db |-> d, err |-> "missing serverID", seq |-> 0, payload |-> <<>>]
    ELSE IF "pending_messages" \notin d.buckets
    THEN [db |-> d, err |-> "missing pending_messages bucket", seq |-> 0,
          payload |-> <<>>]
    ELSE
      LET seq == NextSequence(d)
          d1 == [d EXCEPT !.sequence = seq]
          plaintextMessage ==
              [serverId |-> d.serverID, seq |-> PutUint64(seq),
               notification |-> notification]
          key == PutUint64(seq)
          nonce == Nonce(d.serverID, seq)
          message == Seal(DaemonKey, nonce, plaintextMessage)
          payload == [message |-> message, nonce |-> nonce]
          pendingPayload == [payload |-> payload, sendAttempts |-> 0]
          d2 == Put(d1, key, pendingPayload)
      IN  IF fault = "write"
          THEN [db |-> Rollback(d, d1), err |-> "could not write message to state",
                seq |-> seq, payload |-> payload]
          ELSE IF fault = "commit"
          THEN [db |-> Rollback(d, d2), err |-> "commit failed", seq |-> seq,
                payload |-> payload]
          ELSE [db |-> d2, err |-> "", seq |-> seq, payload |-> payload]

AttemptTxRewritesPayload(d, key, fault) ==
    IF key \notin DOMAIN d.messages
    THEN [db |-> d, err |-> "pending payload missing from state",
          payload |-> <<>>, sendAttempts |-> 0]
    ELSE
      LET pendingPayload == d.messages[key]
          sendAttempts == pendingPayload.sendAttempts
          d1 == IF sendAttempts < Len(waits)
                THEN Put(d, key, [payload |-> [pendingPayload.payload EXCEPT
                                                  !.message = FlipBit(@, sendAttempts)],
                                  sendAttempts |-> sendAttempts + 1])
                ELSE Delete(d, key)
      IN  IF fault = "none"
          THEN [db |-> d1, err |-> "", payload |-> pendingPayload.payload,
                sendAttempts |-> sendAttempts]
          ELSE [db |-> d, err |-> "could not read and update payload",
                payload |-> pendingPayload.payload, sendAttempts |-> sendAttempts]

AttemptTxInMemory(d, key, fault) ==
    IF key \notin DOMAIN d.messages
    THEN [db |-> d, err |-> "pending payload missing from state",
          payload |-> <<>>, sendAttempts |-> 0]
    ELSE [db |-> d, err |-> "", payload |-> d.messages[key].payload,
          sendAttempts |-> d.messages[key].sendAttempts]

AttemptTxLostIncrement(d, key, fault) ==
    IF key \notin DOMAIN d.messages
    THEN [db |-> d, err |-> "pending payload missing from state",
          payload |-> <<>>, sendAttempts |-> 0]
    ELSE
      LET pendingPayload == d.messages[key]
          sendAttempts == pendingPayload.sendAttempts
          others == {k \in DOMAIN d.messages : k # key}
          d1 == IF sendAttempts >= Len(waits) THEN Delete(d, key)
                ELSE IF others = {}
                THEN Put(d, key, [pendingPayload EXCEPT !.sendAttempts = @ + 1])
                ELSE d
      IN  IF fault = "none"
          THEN [db |-> d1, err |-> "", payload |-> pendingPayload.payload,
                sendAttempts |-> sendAttempts]
          ELSE [db |-> d, err |-> "could not read and update payload",
                payload |-> pendingPayload.payload, sendAttempts |-> sendAttempts]

AttemptTxOffByOne(d, key, fault) ==
    IF key \notin DOMAIN d.messages
    THEN [db |-> d, err |-> "pending payload missing from state",
          payload |-> <<>>, sendAttempts |-> 0]
    ELSE
      LET pendingPayload == d.messages[key]
          sendAttempts == pendingPayload.sendAttempts
          d1 == IF sendAttempts <= Len(waits)
                THEN Put(d, key, [pendingPayload EXCEPT !.sendAttempts = @ + 1])
                ELSE Delete(d, key)
      IN  IF fault = "none"
          THEN [db |-> d1, err |-> "", payload |-> pendingPayload.payload,
                sendAttempts |-> sendAttempts]
          ELSE [db |-> d, err |-> "could not read and update payload",
                payload |-> pendingPayload.payload, sendAttempts |-> sendAttempts]

\* The read-and-update transaction of sendPayload.
AttemptTx(d, key, fault) ==
    IF "pending_messages" \notin d.buckets
    THEN [db |-> d, err |-> "missing pending_messages bucket",
          payload |-> <<>>, sendAttempts |-> 0]
    ELSE IF key \notin DOMAIN d.messages
    THEN [db |-> d, err |-> "pending payload missing from state",
          payload |-> <<>>, sendAttempts |-> 0]
    ELSE
      LET pendingPayload == d.messages[key]
          sendAttempts == pendingPayload.sendAttempts
          d1 == IF sendAttempts < Len(waits)
                THEN Put(d, key, [pendingPayload EXCEPT !.sendAttempts = @ + 1])
                ELSE Delete(d, key)
      IN  IF fault = "none"
          THEN [db |-> d1, err |-> "", payload |-> pendingPayload.payload,
                sendAttempts |-> sendAttempts]
          ELSE [db |-> Rollback(d, d1), err |-> "could not read and update payload",
                payload |-> pendingPayload.payload, sendAttempts |-> sendAttempts]

RemoveTxNoDelete(d, key, fault) ==
    IF fault = "none" THEN [db |-> d, err |-> ""]
    ELSE [db |-> d, err |-> "could not remove notification"]

\* The transaction of sendPayload that removes a sent notification.
RemoveTx(d, key, fault) ==
    IF "pending_messages" \notin d.buckets
    THEN [db |-> d, err |-> "missing pending_messages bucket"]
    ELSE IF fault = "none"
    THEN [db |-> Delete(d, key), err |-> ""]
    ELSE [db |-> Rollback(d, Delete(d, key)), err |-> "could not remove notification"]

\* The sequence numbers with a pending message in the store.
Pending(d) == {Uint64(k) : k \in DOMAIN d.messages}

\* ------------------------------------------- the file-based daemon's state
\* The largest uint64.
MaxUint64 == [i \in 1..8 |-> 255]

\* base64.RawStdEncoding.EncodeToString(serverIDBytes).
EncodeToString(bytes) == [base64 |-> bytes]

\* The state file of the file-based daemon: absent, or a BNotifyServerState
\* with its server ID and NextSeq, a uint64 held as its 8 bytes.
NoStateFile == [exists |-> FALSE, serverId |-> EncodeToString(<<>>), nextSeq |-> Long(0)]
ServerState(serverId, nextSeq) == [exists |-> TRUE, serverId |-> serverId, nextSeq |-> nextSeq]

\* What can go wrong in one getServerIDAndSeq call: os.Open fails on a file
\* that is there, reading or unmarshalling fails, the temporary file cannot
\* be written, or os.Rename fails.
FileFaults == {"none", "open", "read", "temp", "rename"}

\* getServerIDAndSeq, lines 354-382: the state read from the file, or a
\* fresh state with the n-th random server ID and NextSeq 1 when the file
\* cannot be opened, or the error of a failing read.
ReadState(file, fault, n) ==
    IF ~file.exists \/ fault = "open"
    THEN [err |-> "", state |-> ServerState(EncodeToString(RandomID(n)), Long(1)),
          fresh |-> TRUE]
    ELSE IF fault = "read"
    THEN [err |-> "could not read state file", state |-> NoStateFile, fresh |-> FALSE]
    ELSE [err |-> "", state |-> file, fresh |-> FALSE]

PrepareNoWrapCheck(increment, read, fault) ==
    IF read.err # ""
    THEN [err |-> read.err, state |-> read.state, seq |-> Long(0)]
    ELSE IF fault = "temp"
    THEN [err |-> "could not write to tempfile", state |-> read.state, seq |-> Long(0)]
    ELSE [err |-> "",
          state |-> IF increment THEN [read.state EXCEPT !.nextSeq = PlusOne(@)]
                    ELSE read.state,
          seq |-> read.state.nextSeq]

\* getServerIDAndSeq, lines 384-426: the result and the state to write, from
\* what was read.  NextSeq 0 means the numbers are used up; the state is
\* written to a temporary file whether it was changed or not.
Prepare(increment, read, fault) ==
    IF read.err # ""
    THEN [err |-> read.err, state |-> read.state, seq |-> Long(0)]
    ELSE IF read.state.nextSeq = Long(0)
    THEN [err |-> "out of message sequence numbers", state |-> read.state,
          seq |-> Long(0)]
    ELSE IF fault = "temp"
    THEN [err |-> "could not write to tempfile", state |-> read.state, seq |-> Long(0)]
    ELSE [err |-> "",
          state |-> IF increment THEN [read.state EXCEPT !.nextSeq = PlusOne(@)]
                    ELSE read.state,
          seq |-> read.state.nextSeq]

\* ------------------------------------------------------------- variables
VARIABLES
    db,         \* the bolt database file (durable)
    up,         \* the daemon process serves RPCs
    task,       \* task[s]: the sendPayload(s) goroutine
    crashes,    \* kills counted against the budget of faults
    errs,       \* store faults injected so far
    rands,      \* server IDs generated so far
    lastReply,  \* the error answered by the last SendNotification call, "" for success
    alloc,      \* server ID, seq and payload of every committed enqueue, in commit order
    reply,      \* reply[s]: what the caller of the enqueue of s was answered
    gw,         \* the payloads handed to the gateway
    calls,      \* calls[s]: gateway calls made for s
    fails,      \* fails[s]: gateway calls for s that failed
    outcome,    \* outcome[s]: how the pending message s left the store
    resumed,    \* the seqs found pending by some startup
    txErr,      \* the seqs whose goroutine saw a transaction fail
    usedSeqs,   \* a UsedSequences object: its TreeSet
    accepted,   \* the values for which use returned true on that object
    lastUse,    \* the last use call on it: value, result and the set before
    stateFile,  \* the receiver's state file (durable)
    keyCache,   \* the receiver's cached key file (durable)
    rpc,        \* the receiver's handler: idle, or about to show a message
    shown,      \* the notifications the receiver has shown, in order
    rlog,       \* the last intent handled and what became of it
    prefs,      \* the app's shared preferences: password and registration id
    keyCall,    \* a getKey call of the handler: its position and its key
    storeCall,  \* a storePassword or storeRegistrationId call: its position
    fstate,     \* the state file of the file-based daemon (durable)
    fproc,      \* its process: down, starting or serving
    fmu,        \* stateMu: the call that holds it, -1 for none
    fcall,      \* fcall[c]: the getServerIDAndSeq call of c, 0 for main
    fstat,      \* server IDs generated, faults injected, calls started
    fret,       \* server ID and seq of every getServerIDAndSeq(true) that returned one
    flast       \* the call that ended last and what it returned

\* The variables of the daemon and those of the receiver.
dvars == <<db, up, task, crashes, errs, rands, lastReply, alloc, reply, gw, calls, fails,
           outcome, resumed, txErr>>
kvars == <<prefs, keyCall, storeCall>>
fvars == <<fstate, fproc, fmu, fcall, fstat, fret, flast>>
rvars == <<usedSeqs, accepted, lastUse, stateFile, keyCache, rpc, shown, rlog, kvars>>

vars == <<db, up, task, crashes, errs, rands, lastReply, alloc, reply, gw, calls, fails,
          outcome, resumed, txErr, usedSeqs, accepted, lastUse, stateFile, keyCache,
          rpc, shown, rlog, prefs, keyCall, storeCall,
          fstate, fproc, fmu, fcall, fstat, fret, flast>>

hist == <<alloc, reply, gw, calls, fails, outcome, resumed, txErr>>

RECURSIVE SumTo(_, _)
SumTo(f, n) == IF n = 0 THEN 0 ELSE f[n] + SumTo(f, n - 1)

\* A fault may be injected: all of them count in a limited specification,
\* the store faults alone otherwise.
Budget(limited) ==
    IF limited THEN crashes + errs + SumTo(fails, MaxSeq) < MaxFaults
    ELSE errs < MaxFaults

NoTask == [pc |-> "none", sendAttempts |-> 0, payload |-> <<>>, waitTime |-> 0]

\* go ns.sendPayload(seq): the goroutine is at the top of its loop.
NewTask == [NoTask EXCEPT !.pc = "tx"]

Idle == [pc |-> "idle", message |-> <<>>]
NoIntent == [payload |-> NoPayload]
NoUse == [value |-> Long(0), result |-> "", fresh |-> TRUE, before |-> EmptyTree]

\* The daemon before its first start.
DaemonInit ==
    /\ db = EmptyDB
    /\ up = FALSE
    /\ task = [s \in Seqs |-> NoTask]
    /\ crashes = 0
    /\ errs = 0
    /\ rands = 0
    /\ lastReply = ""
    /\ alloc = <<>>
    /\ reply = [s \in Seqs |-> ""]
    /\ gw = {}
    /\ calls = [s \in Seqs |-> 0]
    /\ fails = [s \in Seqs |-> 0]
    /\ outcome = [s \in Seqs |-> ""]
    /\ resumed = {}
    /\ txErr = {}

\* A UsedSequences object after createEmpty.
UseInit ==
    /\ usedSeqs = EmptyTree
    /\ accepted = {}
    /\ lastUse = NoUse

\* No getKey call is running.
NoKeyCall == [pc |-> "idle", key |-> <<>>]

\* The receiver with the files in files and nothing handled yet.
ReceiverInit(files) ==
    /\ stateFile \in files
    /\ keyCache = NoKey
    /\ rpc = Idle
    /\ shown = <<>>
    /\ rlog = [intent |-> NoIntent, outcome |-> ""]
    /\ prefs = Settings
    /\ keyCall = NoKeyCall
    /\ storeCall = "idle"

\* No getServerIDAndSeq call is running.
NoCall == [pc |-> "idle", increment |-> FALSE, state |-> NoStateFile, seq |-> Long(0),
           fresh |-> FALSE]
NoResult == [caller |-> -1, increment |-> FALSE, err |-> "", seq |-> Long(0),
             fresh |-> FALSE]

\* The goroutines that serve SendNotification in the file-based daemon; call
\* 0 is the one of main.
FileCallers == 1..2

\* The file-based daemon before its start, with one of the state files in
\* files; a file that is there was written under the first server ID.
FileInit(files) ==
    /\ fstate \in files
    /\ fproc = "down"
    /\ fmu = -1
    /\ fcall = [c \in {0} \cup FileCallers |-> NoCall]
    /\ fstat = [rands |-> IF fstate.exists THEN 1 ELSE 0, faults |-> 0, started |-> 0]
    /\ fret = <<>>
    /\ flast = NoResult

\* Everything before its first start.
Init ==
    /\ DaemonInit
    /\ UseInit
    /\ ReceiverInit({MissingFile})
    /\ FileInit({NoStateFile})

\* --------------------------------------------------------------- actions
MainPurges(fault, limited) ==
    /\ ~up
    /\ fault = "none"
    /\ rands' = IF db.serverID = <<>> THEN rands + 1 ELSE rands
    /\ db' = [db EXCEPT !.buckets = @ \cup {"pending_messages", "settings"},
                        !.serverID = IF @ = <<>> THEN RandomID(rands + 1) ELSE @,
                        !.messages = NoMessages]
    /\ up' = TRUE
    /\ task' = [s \in Seqs |-> NoTask]
    /\ UNCHANGED <<crashes, errs, lastReply, hist>>

MainServesAfterError(fault, limited) ==
    /\ ~up
    /\ fault # "none" => Budget(limited)
    /\ errs' = IF fault # "none" THEN errs + 1 ELSE errs
    /\ rands' = IF db.serverID = <<>> /\ fault = "none" THEN rands + 1 ELSE rands
    /\ db' = IF fault # "none" THEN db
             ELSE [db EXCEPT !.buckets = @ \cup {"pending_messages", "settings"},
                             !.serverID = IF @ = <<>> THEN RandomID(rands + 1) ELSE @]
    /\ up' = TRUE
    /\ task' = [s \in Seqs |-> IF s \in Pending(db) THEN NewTask ELSE NoTask]
    /\ resumed' = resumed \cup Pending(db)
    /\ UNCHANGED <<crashes, lastReply, alloc, reply, gw, calls, fails, outcome, txErr>>

MainNoResume(fault, limited) ==
    /\ ~up
    /\ fault = "none"
    /\ rands' = IF db.serverID = <<>> THEN rands + 1 ELSE rands
    /\ db' = [db EXCEPT !.buckets = @ \cup {"pending_messages", "settings"},
                        !.serverID = IF @ = <<>> THEN RandomID(rands + 1) ELSE @]
    /\ up' = TRUE
    /\ task' = [s \in Seqs |-> NoTask]
    /\ UNCHANGED <<crashes, errs, lastReply, hist>>

MainResetAttempts(fault, limited) ==
    /\ ~up
    /\ fault = "none"
    /\ rands' = IF db.serverID = <<>> THEN rands + 1 ELSE rands
    /\ db' = [db EXCEPT !.buckets = @ \cup {"pending_messages", "settings"},
                        !.serverID = IF @ = <<>> THEN RandomID(rands + 1) ELSE @,
                        !.messages = [k \in DOMAIN @ |-> [@[k] EXCEPT !.sendAttempts = 0]]]
    /\ up' = TRUE
    /\ task' = [s \in Seqs |-> IF s \in Pending(db) THEN NewTask ELSE NoTask]
    /\ resumed' = resumed \cup Pending(db)
    /\ UNCHANGED <<crashes, errs, lastReply, alloc, reply, gw, calls, fails,
                   outcome, txErr>>

\* main: open and initialise the state database, then start one goroutine per
\* pending message and serve.  A failing initialisation is fatal.
Main(fault, limited) ==
    /\ ~up
    /\ IF fault # "none"
       THEN /\ Budget(limited)
            /\ errs' = errs + 1
            /\ UNCHANGED <<db, up, task, crashes, rands, lastReply, hist>>
       ELSE LET pendingSeqs == Pending(db)
                serverID == IF db.serverID = <<>> THEN RandomID(rands + 1)
                            ELSE db.serverID
            IN  /\ rands' = IF db.serverID = <<>> THEN rands + 1 ELSE rands
                /\ db' = [db EXCEPT !.buckets = @ \cup {"pending_messages", "settings"},
                                    !.serverID = serverID]
                /\ up' = TRUE
                /\ task' = [s \in Seqs |-> IF s \in pendingSeqs THEN NewTask ELSE NoTask]
                /\ resumed' = resumed \cup pendingSeqs
                /\ UNCHANGED <<crashes, errs, lastReply, alloc, reply, gw, calls,
                               fails, outcome, txErr>>

CrashRollsBack(limited) ==
    /\ up
    /\ limited => Budget(limited)
    /\ crashes' = IF limited THEN crashes + 1 ELSE crashes
    /\ up' = FALSE
    /\ task' = [s \in Seqs |-> NoTask]
    /\ db' = [db EXCEPT !.messages = [k \in DOMAIN @ |->
                 IF task[Uint64(k)].pc \in {"sleep", "post"} /\ @[k].sendAttempts > 0
                 THEN [@[k] EXCEPT !.sendAttempts = @ - 1] ELSE @[k]]]
    /\ UNCHANGED <<errs, rands, lastReply, hist>>

\* The process is killed: every goroutine is gone, the database file stays.
Crash(limited) ==
    /\ up
    /\ limited => Budget(limited)
    /\ crashes' = IF limited THEN crashes + 1 ELSE crashes
    /\ up' = FALSE
    /\ task' = [s \in Seqs |-> NoTask]
    /\ UNCHANGED <<db, errs, rands, lastReply, hist>>

SendNotificationEager(notification, fault, limited) ==
    /\ up
    /\ Validate(notification) = ""
    /\ db.sequence < (IF limited THEN MaxSeq ELSE 1)
    /\ fault # "none" => Budget(limited)
    /\ errs' = IF fault # "none" THEN errs + 1 ELSE errs
    /\ LET r == EnqueueTx(db, notification, fault)
       IN  /\ db' = r.db
           /\ gw' = gw \cup {r.payload}
           /\ calls' = [calls EXCEPT ![r.seq] = @ + 1]
           /\ IF r.err # ""
              THEN /\ lastReply' = "internal error"
                   /\ UNCHANGED <<task, alloc, reply>>
              ELSE /\ lastReply' = ""
                   /\ task' = [task EXCEPT ![r.seq] = NewTask]
                   /\ alloc' = Append(alloc, [serverID |-> db.serverID, seq |-> r.seq,
                                              payload |-> r.payload])
                   /\ reply' = [reply EXCEPT ![r.seq] = "ok"]
    /\ UNCHANGED <<up, crashes, rands, fails, outcome, resumed, txErr>>

\* The RPC SendNotification.  The callers allocate MaxSeq sequence numbers
\* in a limited specification; otherwise the first message alone is followed.
SendNotification(notification, fault, limited) ==
    /\ up
    /\ IF Validate(notification) # ""
       THEN /\ fault = "none"
            /\ lastReply' = Validate(notification)
            /\ UNCHANGED <<db, up, task, crashes, errs, rands, hist>>
       ELSE LET r == EnqueueTx(db, notification, fault)
            IN  /\ db.sequence < (IF limited THEN MaxSeq ELSE 1)
                /\ fault # "none" => Budget(limited)
                /\ errs' = IF fault # "none" THEN errs + 1 ELSE errs
                /\ db' = r.db
                /\ IF r.err # ""
                   THEN /\ lastReply' = "internal error"
                        /\ UNCHANGED <<up, task, crashes, rands, hist>>
                   ELSE /\ lastReply' = ""
                        /\ task' = [task EXCEPT ![r.seq] = NewTask]
                        /\ alloc' = Append(alloc, [serverID |-> db.serverID,
                                                   seq |-> r.seq,
                                                   payload |-> r.payload])
                        /\ reply' = [reply EXCEPT ![r.seq] = "ok"]
                        /\ UNCHANGED <<up, crashes, rands, gw, calls, fails, outcome,
                                       resumed, txErr>>

AttemptGoesOn(s, fault, limited) ==
    /\ up
    /\ task[s].pc = "tx"
    /\ fault # "none" => Budget(limited)
    /\ errs' = IF fault # "none" THEN errs + 1 ELSE errs
    /\ LET r == AttemptTx(db, PutUint64(s), fault)
       IN  /\ db' = r.db
           /\ task' = [task EXCEPT ![s] = [pc |-> "sleep",
                                           sendAttempts |-> r.sendAttempts,
                                           payload |-> r.payload,
                                           waitTime |-> 0]]
           /\ txErr' = IF r.err # "" THEN txErr \cup {s} ELSE txErr
           /\ outcome' = IF r.err = "" /\ r.sendAttempts >= Len(waits)
                         THEN [outcome EXCEPT ![s] = "exhausted"]
                         ELSE outcome
    /\ UNCHANGED <<up, crashes, rands, lastReply, alloc, reply, gw, calls, fails, resumed>>

\* sendPayload, top of the loop: read the pending payload and count the
\* attempt, or delete the payload when the retries are used up.
Attempt(s, fault, limited) ==
    /\ up
    /\ task[s].pc = "tx"
    /\ fault # "none" => Budget(limited)
    /\ errs' = IF fault # "none" THEN errs + 1 ELSE errs
    /\ LET r == AttemptTx(db, PutUint64(s), fault)
       IN  /\ db' = r.db
           /\ IF r.err # ""
              THEN /\ task' = [task EXCEPT ![s] = NoTask]
                   /\ txErr' = txErr \cup {s}
                   /\ UNCHANGED outcome
              ELSE /\ task' = [task EXCEPT ![s] = [pc |-> "sleep",
                                                   sendAttempts |-> r.sendAttempts,
                                                   payload |-> r.payload,
                                                   waitTime |-> 0]]
                   /\ outcome' = IF r.sendAttempts >= Len(waits)
                                 THEN [outcome EXCEPT ![s] = "exhausted"]
                                 ELSE outcome
                   /\ UNCHANGED txErr
    /\ UNCHANGED <<up, crashes, rands, lastReply, alloc, reply, gw, calls, fails, resumed>>

SleepNoBackoff(s) ==
    /\ up
    /\ task[s].pc = "sleep"
    /\ task[s].sendAttempts < Len(waits)
    /\ task' = [task EXCEPT ![s].pc = "post", ![s].waitTime = waits[1]]
    /\ UNCHANGED <<db, up, crashes, errs, rands, lastReply, hist>>

\* sendPayload after the transaction: waits[sendAttempts] is looked up and
\* slept.  The lookup is out of range when the retries were used up: the
\* goroutine panics and the process dies.
Sleep(s) ==
    /\ up
    /\ task[s].pc = "sleep"
    /\ IF task[s].sendAttempts >= Len(waits)
       THEN /\ up' = FALSE
            /\ task' = [t \in Seqs |-> NoTask]
       ELSE /\ task' = [task EXCEPT ![s].pc = "post",
                                    ![s].waitTime = waits[task[s].sendAttempts + 1]]
            /\ UNCHANGED up
    /\ UNCHANGED <<db, crashes, errs, rands, lastReply, hist>>

PostInOrder(s, ok, limited) ==
    /\ up
    /\ task[s].pc = "post"
    /\ \A t \in 1..(s - 1) : task[t].pc = "none"
    /\ (~ok /\ limited) => Budget(limited)
    /\ gw' = gw \cup {task[s].payload}
    /\ calls' = [calls EXCEPT ![s] = @ + 1]
    /\ fails' = IF ok THEN fails ELSE [fails EXCEPT ![s] = @ + 1]
    /\ task' = [task EXCEPT ![s].pc = IF ok THEN "remove" ELSE "tx"]
    /\ UNCHANGED <<db, up, crashes, errs, rands, lastReply, alloc, reply, outcome,
                   resumed, txErr>>

PostSurfaced(s, ok, limited) ==
    /\ up
    /\ task[s].pc = "post"
    /\ (~ok /\ limited) => Budget(limited)
    /\ gw' = gw \cup {task[s].payload}
    /\ calls' = [calls EXCEPT ![s] = @ + 1]
    /\ fails' = IF ok THEN fails ELSE [fails EXCEPT ![s] = @ + 1]
    /\ reply' = IF ok THEN reply ELSE [reply EXCEPT ![s] = "internal error"]
    /\ task' = [task EXCEPT ![s].pc = IF ok THEN "remove" ELSE "tx"]
    /\ UNCHANGED <<db, up, crashes, errs, rands, lastReply, alloc, outcome,
                   resumed, txErr>>

\* postPayloadToGCM: one call of the gateway, which succeeds or fails.
Post(s, ok, limited) ==
    /\ up
    /\ task[s].pc = "post"
    /\ (~ok /\ limited) => Budget(limited)
    /\ gw' = gw \cup {task[s].payload}
    /\ calls' = [calls EXCEPT ![s] = @ + 1]
    /\ fails' = IF ok THEN fails ELSE [fails EXCEPT ![s] = @ + 1]
    /\ task' = [task EXCEPT ![s].pc = IF ok THEN "remove" ELSE "tx"]
    /\ UNCHANGED <<db, up, crashes, errs, rands, lastReply, alloc, reply, outcome,
                   resumed, txErr>>

\* sendPayload after a successful post: remove the message from the queue
\* and return, also when the removal fails.
Remove(s, fault, limited) ==
    /\ up
    /\ task[s].pc = "remove"
    /\ fault # "none" => Budget(limited)
    /\ errs' = IF fault # "none" THEN errs + 1 ELSE errs
    /\ LET r == RemoveTx(db, PutUint64(s), fault)
       IN  /\ db' = r.db
           /\ txErr' = IF r.err # "" THEN txErr \cup {s} ELSE txErr
           /\ outcome' = IF r.err = "" /\ s \in Pending(db)
                         THEN [outcome EXCEPT ![s] = "delivered"]
                         ELSE outcome
    /\ task' = [task EXCEPT ![s] = NoTask]
    /\ UNCHANGED <<up, crashes, rands, lastReply, alloc, reply, gw, calls, fails, resumed>>

\* ---------------------------------------------------------- specifications
\* Spec: concurrent callers and goroutines, with a budget of injected
\* gateway failures, kills and store faults.
Next ==
    \/ \E fault \in {"none", "commit"} : Main(fault, TRUE) /\ UNCHANGED <<rvars, fvars>>
    \/ Crash(TRUE) /\ UNCHANGED <<rvars, fvars>>
    \/ \E n \in Notifications, fault \in TxFaults : SendNotification(n, fault, TRUE) /\ UNCHANGED <<rvars, fvars>>
    \/ \E s \in Seqs, fault \in TxFaults : Attempt(s, fault, TRUE) /\ UNCHANGED <<rvars, fvars>>
    \/ \E s \in Seqs : Sleep(s) /\ UNCHANGED <<rvars, fvars>>
    \/ \E s \in Seqs, ok \in BOOLEAN : Post(s, ok, TRUE) /\ UNCHANGED <<rvars, fvars>>
    \/ \E s \in Seqs, fault \in TxFaults : Remove(s, fault, TRUE) /\ UNCHANGED <<rvars, fvars>>

Spec == Init /\ [][Next]_vars

\* DeepSpec: the first message of the daemon, followed through the whole
\* schedule: any number of gateway failures and of kills, and a budget of
\* store faults.
DeepNext ==
    \/ \E fault \in {"none", "commit"} : Main(fault, FALSE) /\ UNCHANGED <<rvars, fvars>>
    \/ Crash(FALSE) /\ UNCHANGED <<rvars, fvars>>
    \/ \E n \in Notifications, fault \in TxFaults : SendNotification(n, fault, FALSE) /\ UNCHANGED <<rvars, fvars>>
    \/ \E s \in Seqs, fault \in TxFaults : Attempt(s, fault, FALSE) /\ UNCHANGED <<rvars, fvars>>
    \/ \E s \in Seqs : Sleep(s) /\ UNCHANGED <<rvars, fvars>>
    \/ \E s \in Seqs, ok \in BOOLEAN : Post(s, ok, FALSE) /\ UNCHANGED <<rvars, fvars>>
    \/ \E s \in Seqs, fault \in TxFaults : Remove(s, fault, FALSE) /\ UNCHANGED <<rvars, fvars>>

DeepSpec == Init /\ [][DeepNext]_vars

\* LiveSpec: no kill and no store fault; the gateway fails or succeeds as it
\* likes but every call returns, and the Go scheduler runs every goroutine
\* that can take a step.  Nothing restarts a process that has died.
LiveNext ==
    \/ Main("none", FALSE) /\ UNCHANGED <<rvars, fvars>>
    \/ \E n \in Notifications : SendNotification(n, "none", TRUE) /\ UNCHANGED <<rvars, fvars>>
    \/ \E s \in Seqs : Attempt(s, "none", FALSE) /\ UNCHANGED <<rvars, fvars>>
    \/ \E s \in Seqs : Sleep(s) /\ UNCHANGED <<rvars, fvars>>
    \/ \E s \in Seqs, ok \in BOOLEAN : Post(s, ok, FALSE) /\ UNCHANGED <<rvars, fvars>>
    \/ \E s \in Seqs : Remove(s, "none", FALSE) /\ UNCHANGED <<rvars, fvars>>

Fairness ==
    \A s \in Seqs :
        /\ WF_vars(Attempt(s, "none", FALSE) /\ UNCHANGED <<rvars, fvars>>)
        /\ WF_vars(Sleep(s) /\ UNCHANGED <<rvars, fvars>>)
        /\ WF_vars((\E ok \in BOOLEAN : Post(s, ok, FALSE)) /\ UNCHANGED <<rvars, fvars>>)
        /\ WF_vars(Remove(s, "none", FALSE) /\ UNCHANGED <<rvars, fvars>>)

LiveSpec == Init /\ [][LiveNext]_vars /\ Fairness

\* UseSpec: one UsedSequences object and any sequence of use calls with
\* values around 3 and around 2^63.
UseValues ==
    {Long(2 + i) : i \in 1..Span} \cup {HighLong(i - 1) : i \in 1..Span} \cup {MaxLong}

UseValue(value) ==
    LET r == Use(usedSeqs, value)
    IN  /\ usedSeqs' = r.usedSeqs
        /\ accepted' = IF r.result = "true" THEN accepted \cup {value} ELSE accepted
        /\ lastUse' = [value |-> value, result |-> r.result,
                       fresh |-> value \notin accepted, before |-> usedSeqs]
        /\ UNCHANGED <<dvars, fvars, kvars, stateFile, keyCache, rpc, shown, rlog>>

UseNext == \E value \in UseValues : UseValue(value)

UseSpec == Init /\ [][UseNext]_vars

\* RecvSpec: the receiver handles one intent after the other; reads and
\* writes of the state file may fail and the process may be killed.
ServerIds == {RandomID(1), RandomID(2)}
OtherKey ==
    Pbkdf2("other", Settings.registrationId, pbkdfIterCount, aesKeySize, "sha1")

\* The envelope the daemon with the given server ID enqueues for seq.
Sent(serverID, seq) ==
    EnqueueTx([EmptyDB EXCEPT !.buckets = {"pending_messages", "settings"},
                              !.serverID = serverID,
                              !.sequence = seq - 1],
              [title |-> "T", text |-> "X"], "none").payload

\* The intents a sender delivers, possibly more than once.
ValidIntents == {[payload |-> Base64Encode(Sent(sid, q))] : sid \in ServerIds, q \in Seqs}

\* Intents with a payload that is missing, not base64, not an envelope,
\* sealed under another key, changed in one bit, carried with another nonce,
\* or sealed around something that is no message.
BadIntents ==
    LET e == Sent(RandomID(1), 1)
    IN  {[payload |-> NoPayload],
         [payload |-> NotBase64],
         [payload |-> Base64Encode(Garbage)],
         [payload |-> Base64Encode([e EXCEPT !.message.key = OtherKey])],
         [payload |-> Base64Encode([e EXCEPT !.message = FlipBit(@, 1)])],
         [payload |-> Base64Encode([e EXCEPT !.nonce = RandomID(1) \o Long(2)])],
         [payload |-> Base64Encode([message |-> Seal(DaemonKey, e.nonce, Garbage),
                                    nonce |-> e.nonce])]}

Intents == ValidIntents \cup BadIntents

ErrorNotification ==
    [serverId |-> <<>>, seq |-> <<>>, title |-> "bNotify error", text |-> "error"]

\* onHandleIntent up to the decision of checkSeq.
OnHandleIntent(intent, readFault, writeFault) ==
    /\ rpc.pc = "idle"
    /\ Len(shown) < MaxShown
    /\ LET h == Handle(intent, keyCache, stateFile, readFault, writeFault)
       IN  /\ keyCache' = h.cache
           /\ stateFile' = h.file
           /\ shown' = IF h.errors > 0 THEN Append(shown, ErrorNotification) ELSE shown
           /\ rpc' = IF h.outcome = "allowed"
                     THEN [pc |-> "show", message |-> h.message]
                     ELSE Idle
           /\ rlog' = [intent |-> intent, outcome |-> h.outcome]
    /\ UNCHANGED <<dvars, fvars, kvars, usedSeqs, accepted, lastUse>>

\* onHandleIntent after checkSeq returned true: showNotification.
ShowNotification ==
    /\ rpc.pc = "show"
    /\ shown' = Append(shown, [serverId |-> rpc.message.serverId,
                               seq |-> rpc.message.seq,
                               title |-> rpc.message.notification.title,
                               text |-> rpc.message.notification.text])
    /\ rpc' = Idle
    /\ rlog' = [rlog EXCEPT !.outcome = "shown"]
    /\ UNCHANGED <<dvars, fvars, kvars, usedSeqs, accepted, lastUse, stateFile, keyCache>>

\* The receiver's process is killed between checkSeq and showNotification.
ReceiverKilled ==
    /\ rpc.pc = "show"
    /\ rpc' = Idle
    /\ rlog' = [rlog EXCEPT !.outcome = "killed"]
    /\ UNCHANGED <<dvars, fvars, kvars, usedSeqs, accepted, lastUse, stateFile, keyCache, shown>>

RecvInit ==
    /\ DaemonInit
    /\ UseInit
    /\ ReceiverInit({MissingFile})
    /\ FileInit({NoStateFile})

RecvNext ==
    \/ \E intent \in Intents, readFault \in ReadFaults, writeFault \in WriteFaults :
          OnHandleIntent(intent, readFault, writeFault)
    \/ ShowNotification
    \/ ReceiverKilled

RecvSpec == RecvInit /\ [][RecvNext]_vars

\* KeySpec: getKey calls of the handler's thread run next to the calls of
\* SettingsActivity that change the password or the registration id.
Passwords == {Settings.password, "other"}
RegistrationIds == {Settings.registrationId, "reg2"}

\* The key getKey derives from what the preferences hold.
DeriveKey(p) ==
    Pbkdf2(p.password, p.registrationId, PBKDF2_ITERATION_COUNT,
           (8 * AES_KEY_SIZE) \div 8, "sha1")

\* getKey, lines 150-153: getCachedKey; a key that was read is returned.
GetCachedKey ==
    /\ keyCall.pc = "idle"
    /\ keyCall' = IF keyCache.exists THEN [pc |-> "idle", key |-> keyCache.key]
                  ELSE [pc |-> "derive", key |-> <<>>]
    /\ UNCHANGED <<dvars, fvars, usedSeqs, accepted, lastUse, stateFile, keyCache, rpc,
                   shown, rlog, prefs, storeCall>>

\* getKey, lines 156-163: the preferences are read and the key is derived.
GenerateSecret ==
    /\ keyCall.pc = "derive"
    /\ keyCall' = [pc |-> "store", key |-> DeriveKey(prefs)]
    /\ UNCHANGED <<dvars, fvars, usedSeqs, accepted, lastUse, stateFile, keyCache, rpc,
                   shown, rlog, prefs, storeCall>>

\* getKey, line 164: setCachedKey; an IOException is logged and the key is
\* returned all the same.
SetCachedKey(fault) ==
    /\ keyCall.pc = "store"
    /\ keyCache' = IF fault THEN keyCache ELSE [exists |-> TRUE, key |-> keyCall.key]
    /\ keyCall' = [pc |-> "idle", key |-> keyCall.key]
    /\ UNCHANGED <<dvars, fvars, usedSeqs, accepted, lastUse, stateFile, rpc, shown, rlog,
                   prefs, storeCall>>

\* storePassword up to clearCachedKey: nothing happens for the password
\* that is stored already.
StorePassword(password) ==
    /\ storeCall = "idle"
    /\ prefs.password # password
    /\ prefs' = [prefs EXCEPT !.password = password]
    /\ storeCall' = "clear"
    /\ UNCHANGED <<dvars, fvars, usedSeqs, accepted, lastUse, stateFile, keyCache, rpc,
                   shown, rlog, keyCall>>

\* storeRegistrationId up to clearCachedKey.
StoreRegistrationId(registrationId) ==
    /\ storeCall = "idle"
    /\ prefs.registrationId # registrationId
    /\ prefs' = [prefs EXCEPT !.registrationId = registrationId]
    /\ storeCall' = "clear"
    /\ UNCHANGED <<dvars, fvars, usedSeqs, accepted, lastUse, stateFile, keyCache, rpc,
                   shown, rlog, keyCall>>

\* clearCachedKey: the cached key file is deleted.
ClearCachedKey ==
    /\ storeCall = "clear"
    /\ keyCache' = NoKey
    /\ storeCall' = "idle"
    /\ UNCHANGED <<dvars, fvars, usedSeqs, accepted, lastUse, stateFile, rpc, shown, rlog,
                   prefs, keyCall>>

KeyNext ==
    \/ GetCachedKey
    \/ GenerateSecret
    \/ \E fault \in BOOLEAN : SetCachedKey(fault)
    \/ \E password \in Passwords : StorePassword(password)
    \/ \E registrationId \in RegistrationIds : StoreRegistrationId(registrationId)
    \/ ClearCachedKey

KeySpec == RecvInit /\ [][KeyNext]_vars

\* FileSpec: the file-based daemon.  Two goroutines call
\* getServerIDAndSeq(true) as often as MaxCalls allows, main calls
\* getServerIDAndSeq(false) at every start, the process may be killed at any
\* point, and a budget of the calls' file operations fails.
\* A state file left by an earlier run: two numbers are left before NextSeq
\* wraps.
StateFiles ==
    {NoStateFile, ServerState(EncodeToString(RandomID(1)), MinusOne(MaxUint64))}

\* The call of c returns: stateMu is released, and main goes on to serve, or
\* ends the process with log.Fatalf when its call failed.
Ended(c, err) ==
    /\ flast' = [caller |-> c, increment |-> fcall[c].increment, err |-> err,
                 seq |-> IF err = "" THEN fcall[c].seq ELSE Long(0),
                 fresh |-> fcall[c].fresh]
    /\ fmu' = -1
    /\ fcall' = [fcall EXCEPT ![c] = NoCall]
    /\ fproc' = IF c # 0 THEN fproc ELSE IF err = "" THEN "serving" ELSE "down"

\* main up to its call of getServerIDAndSeq(false).
FileMain ==
    /\ fproc = "down"
    /\ fproc' = "starting"
    /\ fcall' = [fcall EXCEPT ![0] = [NoCall EXCEPT !.pc = "open"]]
    /\ UNCHANGED <<dvars, rvars, fstate, fmu, fstat, fret, flast>>

\* SendNotification up to its call of getServerIDAndSeq(true).
FileSendNotification(c) ==
    /\ fproc = "serving"
    /\ fcall[c].pc = "idle"
    /\ fstat.started < MaxCalls
    /\ fcall' = [fcall EXCEPT ![c] = [NoCall EXCEPT !.pc = "open", !.increment = TRUE]]
    /\ fstat' = [fstat EXCEPT !.started = @ + 1]
    /\ UNCHANGED <<dvars, rvars, fstate, fproc, fmu, fret, flast>>

\* getServerIDAndSeq up to the rename: stateMu is taken, the state is read
\* or made, the result is fixed and the new state is written to a
\* temporary file.  An error returns and releases stateMu.
GetServerIDAndSeq(c, fault) ==
    /\ fproc # "down"
    /\ fcall[c].pc = "open"
    /\ fmu = -1
    /\ fault # "none" => fstat.faults < MaxFaults
    /\ fault \in {"open", "read"} => fstate.exists
    /\ LET read == ReadState(fstate, fault, fstat.rands + 1)
           p == Prepare(fcall[c].increment, read, fault)
       IN  /\ read.fresh => fstat.rands < MaxIDs
           /\ fstat' = [fstat EXCEPT !.rands = IF read.fresh THEN @ + 1 ELSE @,
                                     !.faults = IF fault # "none" THEN @ + 1 ELSE @]
           /\ IF p.err # ""
              THEN /\ flast' = [caller |-> c, increment |-> fcall[c].increment,
                                err |-> p.err, seq |-> Long(0), fresh |-> read.fresh]
                   /\ fmu' = -1
                   /\ fcall' = [fcall EXCEPT ![c] = NoCall]
                   /\ fproc' = IF c = 0 THEN "down" ELSE fproc
              ELSE /\ fcall' = [fcall EXCEPT ![c] = [pc |-> "rename",
                                                     increment |-> fcall[c].increment,
                                                     state |-> p.state,
                                                     seq |-> p.seq,
                                                     fresh |-> read.fresh]]
                   /\ fmu' = c
                   /\ UNCHANGED <<fproc, flast>>
    /\ UNCHANGED <<dvars, rvars, fstate, fret>>

\* getServerIDAndSeq, lines 427-429: os.Rename puts the temporary file in
\* the place of the state file, or fails and leaves the state file.
Rename(c, fault) ==
    /\ fcall[c].pc = "rename"
    /\ fault # "none" => fstat.faults < MaxFaults
    /\ fstat' = [fstat EXCEPT !.faults = IF fault # "none" THEN @ + 1 ELSE @]
    /\ IF fault # "none"
       THEN /\ Ended(c, "could not rename tempfile")
            /\ UNCHANGED fstate
       ELSE /\ fstate' = fcall[c].state
            /\ fcall' = [fcall EXCEPT ![c].pc = "return"]
            /\ UNCHANGED <<fproc, fmu, flast>>
    /\ UNCHANGED <<dvars, rvars, fret>>

\* getServerIDAndSeq, line 431: the server ID and the seq are returned to
\* the caller and stateMu is released.
Return(c) ==
    /\ fcall[c].pc = "return"
    /\ Ended(c, "")
    /\ fret' = IF fcall[c].increment
               THEN Append(fret, [serverID |-> fcall[c].state.serverId,
                                  seq |-> fcall[c].seq])
               ELSE fret
    /\ UNCHANGED <<dvars, rvars, fstate, fstat>>

\* The process is killed: its calls and its mutex are gone, the file stays.
FileKill ==
    /\ fproc # "down"
    /\ fproc' = "down"
    /\ fmu' = -1
    /\ fcall' = [c \in DOMAIN fcall |-> NoCall]
    /\ UNCHANGED <<dvars, rvars, fstate, fstat, fret, flast>>

FileNext ==
    \/ FileMain
    \/ \E c \in FileCallers : FileSendNotification(c)
    \/ \E c \in DOMAIN fcall, fault \in {"none", "open", "read", "temp"} :
          GetServerIDAndSeq(c, fault)
    \/ \E c \in DOMAIN fcall, fault \in {"none", "rename"} : Rename(c, fault)
    \/ \E c \in DOMAIN fcall : Return(c)
    \/ FileKill

FileSpecInit ==
    /\ DaemonInit
    /\ UseInit
    /\ ReceiverInit({MissingFile})
    /\ FileInit(StateFiles)

FileSpec == FileSpecInit /\ [][FileNext]_vars

\* ---------------------------------------------------------------- claims
Allocated(s) == \E i \in 1..Len(alloc) : alloc[i].seq = s

\* The persisted attempt counter of the pending message s.
Attempts(d, s) == d.messages[PutUint64(s)].sendAttempts

ValidationErrors == {"notification missing title", "notification missing text"}

\* The message s was handled by one goroutine of one process run, and none
\* of its transactions failed.
Clean(s) == up /\ s \notin resumed /\ s \notin txErr

\* C1: the sequence numbers of the committed enqueues are 1, 2, ..., N in
\* commit order, the counter of the store is N, all under one server ID, and
\* no (server ID, seq) pair is allocated twice; kills, restarts and deletions
\* of pending messages between the calls do not change this.
C1_SeqAllocation ==
    /\ Len(alloc) = db.sequence
    /\ \A i \in 1..Len(alloc) : alloc[i].seq = i /\ alloc[i].serverID = db.serverID
    /\ \A i, j \in 1..Len(alloc) :
          (alloc[i].serverID = alloc[j].serverID /\ alloc[i].seq = alloc[j].seq) => i = j

\* The second number is allocated after the first message was deleted and
\* after a kill and a restart.
C1_Witness ==
    /\ Len(alloc) = 2
    /\ outcome[1] = "delivered"
    /\ 1 \in resumed
    /\ 2 \notin resumed
    /\ 2 \in Pending(db)
    /\ crashes = 1
    /\ errs = 0

C3_WriteAhead ==
    /\ \A e \in gw : \E i \in 1..Len(alloc) : alloc[i].payload = e
    /\ \A s \in Seqs : calls[s] > 0 => Allocated(s)
    /\ \A s \in Seqs : task[s].pc # "none" => Allocated(s)

C3_Witness ==
    /\ \E s \in Seqs : calls[s] > 0 /\ s \in Pending(db)
    /\ lastReply = "internal error"

\* C4: an enqueue is atomic.  A committed enqueue advances the counter by one
\* and adds PendingMessage{seq, envelope, attempts = 0}; a failed one answers
\* "internal error" and leaves the store and the goroutines as they were; at
\* all times the counter and the messages agree: every pending seq is at
\* most the counter, and every seq up to the counter was committed.
C4_EnqueueAtomic ==
    [][ /\ (lastReply' = "internal error" /\ lastReply # "internal error")
            => UNCHANGED <<db, task, alloc>>
        /\ (Len(alloc') > Len(alloc))
            => LET s == alloc'[Len(alloc')].seq
               IN  /\ db'.sequence = db.sequence + 1
                   /\ DOMAIN db'.messages = DOMAIN db.messages \cup {PutUint64(s)}
                   /\ db'.messages[PutUint64(s)] =
                        [payload |-> alloc'[Len(alloc')].payload, sendAttempts |-> 0]
                   /\ lastReply' = ""
        /\ db'.sequence = Len(alloc')
        /\ \A s \in Pending(db') : s <= db'.sequence
      ]_vars

\* An enqueue failed after another one had committed.
C4_Witness ==
    /\ lastReply = "internal error"
    /\ db.sequence = 1
    /\ 1 \in Pending(db)

\* C5: a request with an empty title or an empty text is answered with a
\* validation error and changes neither the store nor the goroutines nor
\* what the gateway got; no notification with an empty title or text is
\* ever persisted or handed to the gateway.
C5_Validation ==
    [][ /\ (lastReply' \in ValidationErrors /\ lastReply' # lastReply)
            => UNCHANGED <<db, task, gw, calls, alloc>>
        /\ \A k \in DOMAIN db'.messages :
              LET n == db'.messages[k].payload.message.plaintext.notification
              IN  n.title # "" /\ n.text # ""
        /\ \A e \in gw' :
              LET n == e.message.plaintext.notification
              IN  n.title # "" /\ n.text # ""
      ]_vars

C5_Witness ==
    /\ lastReply = "notification missing text"
    /\ db.sequence = 1
    /\ \E s \in Seqs : task[s].pc = "post"

\* C6: the caller of a committed enqueue was answered success, and no gateway
\* call changes an answer given to a caller.
C6_GatewayFailureNotSurfaced ==
    [][ /\ \A s \in Seqs : Allocated(s)' => reply'[s] = "ok"
        /\ (calls' # calls) => UNCHANGED <<reply, lastReply>>
      ]_vars

C6_Witness ==
    \E s \in Seqs : fails[s] > 0 /\ reply[s] = "ok" /\ lastReply = ""

C8_NeverLost ==
    \A s \in Seqs : (Allocated(s) /\ s \notin Pending(db)) => calls[s] > 0

\* C8 as amended: every startup starts a goroutine for every pending message
\* and leaves the messages as they are, and a message leaves the queue without
\* a gateway call only when its persisted attempt counter had reached the
\* length of the schedule.
C8_Recovery ==
    [][ /\ (~up /\ up')
            => /\ \A s \in Pending(db) : task'[s].pc = "tx"
               /\ db'.messages = db.messages
        /\ \A s \in Seqs :
             (s \in Pending(db) /\ s \notin Pending(db') /\ calls'[s] = 0)
                => Attempts(db, s) = Len(waits)
      ]_vars

\* A message that was pending and never attempted when the process was
\* killed got its first gateway call after the restart.
C8_Witness ==
    /\ 1 \in resumed
    /\ calls[1] = 1
    /\ 1 \in Pending(db)
    /\ Attempts(db, 1) = 1

\* C9: a startup does not touch the persisted attempt counters; the index a
\* goroutine uses into the schedule is the attempt counter it read from the
\* store, and the delay it sleeps is the schedule entry of that index; the
\* persisted counter of a pending message never decreases.
C9_ResumeWithPersistedAttempts ==
    [][ /\ (~up /\ up') => db'.messages = db.messages
        /\ \A s \in Seqs :
            /\ (task[s].pc = "tx" /\ task'[s].pc = "sleep")
                  => task'[s].sendAttempts = Attempts(db, s)
            /\ task'[s].pc = "post"
                  => /\ task'[s].waitTime = waits[task'[s].sendAttempts + 1]
                     /\ s \in Pending(db') => Attempts(db', s) = task'[s].sendAttempts + 1
            /\ (s \in Pending(db) /\ s \in Pending(db'))
                  => Attempts(db', s) >= Attempts(db, s)
      ]_vars

\* A message resumed with a persisted counter of 3 waits the schedule entry
\* of index 3, 4 seconds, before its next call.
C9_Witness ==
    /\ 1 \in resumed
    /\ task[1].pc = "post"
    /\ task[1].sendAttempts = 3
    /\ task[1].waitTime = 4
    /\ calls[1] = 0

\* C10: for a message handled by one goroutine without a failing
\* transaction: the n-th gateway call is preceded by the n-th entry of the
\* schedule, every call before the last one failed, the persisted counter is
\* the number of calls made or in preparation, and after the call that
\* succeeds the message is out of the queue with fails + 1 calls recorded.
C10_FailThenSucceed ==
    \A s \in Seqs : Clean(s) =>
        /\ task[s].pc \in {"sleep", "post"}
              => /\ task[s].sendAttempts = calls[s]
                 /\ fails[s] = calls[s]
        /\ task[s].pc = "post" => task[s].waitTime = waits[calls[s] + 1]
        /\ (task[s].pc \in {"sleep", "post"} /\ s \in Pending(db))
              => Attempts(db, s) = calls[s] + 1
        /\ task[s].pc \in {"tx", "remove"} => Attempts(db, s) = calls[s]
        /\ task[s].pc = "tx" => fails[s] = calls[s]
        /\ task[s].pc = "remove" => calls[s] = fails[s] + 1
        /\ (calls[s] > fails[s] /\ task[s].pc = "none")
              => /\ calls[s] = fails[s] + 1
                 /\ s \notin Pending(db)
                 /\ outcome[s] = "delivered"

\* Two failed calls, then a successful third one, and the queue is empty.
C10_Witness ==
    /\ Clean(1)
    /\ fails[1] = 2
    /\ calls[1] = 3
    /\ outcome[1] = "delivered"
    /\ Pending(db) = {}

\* C11 as claimed: once a gateway call for a message has succeeded, the
\* message is out of the store and its goroutine is gone as soon as the
\* goroutine has left its removal step, and no second call is made.
C11_Delivered ==
    \A s \in Seqs : calls[s] > fails[s] =>
        /\ calls[s] = fails[s] + 1
        /\ task[s].pc = "remove" \/ (task[s].pc = "none" /\ s \notin Pending(db))

\* C11 as amended: after a successful gateway call the goroutine makes no
\* further call and returns after its removal transaction; when that
\* transaction commits the message is out of the store, when it fails the
\* store is unchanged; and for a message handled by one goroutine without a
\* kill and without a failing transaction, the successful call is the last
\* one and the message is out of the store once the goroutine has returned.
C11_DeliveredUnlessRemovalFails ==
    [][ \A s \in Seqs :
          /\ task[s].pc = "remove" => task'[s].pc \in {"remove", "none"}
          /\ (task[s].pc = "remove" /\ task'[s].pc = "none" /\ up')
                => /\ calls'[s] = calls[s]
                   /\ errs' = errs => (s \notin Pending(db') /\ db'.sequence = db.sequence)
                   /\ errs' # errs => db' = db
          /\ (Clean(s)' /\ calls'[s] > fails'[s] /\ task'[s].pc = "none")
                => /\ calls'[s] = fails'[s] + 1
                   /\ s \notin Pending(db')
                   /\ outcome'[s] = "delivered"
      ]_vars

\* The first gateway call of the only message succeeded, the message was
\* removed, the goroutine returned and the queue is empty.
C11_Witness ==
    /\ up
    /\ Len(alloc) = 1
    /\ calls[1] = 1
    /\ fails[1] = 0
    /\ outcome[1] = "delivered"
    /\ task[1].pc = "none"
    /\ Pending(db) = {}
    /\ crashes = 0
    /\ errs = 0

\* C12: with fair goroutines, a store that never fails, a gateway whose
\* calls all return and no kill, every pending message eventually leaves
\* the queue as delivered or as exhausted, and every goroutine eventually
\* ends.
C12_EventuallyLeaves ==
    \A s \in Seqs :
        /\ (s \in Pending(db)) ~> (s \notin Pending(db)
                                    /\ outcome[s] \in {"delivered", "exhausted"})
        /\ (task[s].pc # "none") ~> (task[s].pc = "none")

\* The value lies in one of the ranges of the set, as unsigned numbers.
Covered(t, value) ==
    \E i \in 1..Len(t) : /\ UnsignedCompare(t[i].min, value) <= 0
                          /\ UnsignedCompare(value, t[i].max) <= 0

\* C13: use(value) returns true exactly when no earlier call on the object
\* returned true for the same value, and false otherwise.
C13_UseResult ==
    lastUse.result # "" =>
        /\ lastUse.result \in {"true", "false"}
        /\ (lastUse.result = "true") <=> lastUse.fresh

\* C14: after any sequence of use calls every range has min <= max, the
\* ranges are in increasing order, two neighbours neither overlap nor touch,
\* and the ranges hold exactly the accepted values; accepting 3, 5 and 4
\* leaves the single range [3,5].
C14_RangesSortedDisjointMerged ==
    /\ \A i \in 1..Len(usedSeqs) : RangeOK(usedSeqs[i].min, usedSeqs[i].max)
    /\ \A i \in 1..(Len(usedSeqs) - 1) :
          /\ usedSeqs[i].max # MinusOne(Long(0))
          /\ UnsignedCompare(PlusOne(usedSeqs[i].max), usedSeqs[i + 1].min) < 0
    /\ \A value \in UseValues : Covered(usedSeqs, value) <=> value \in accepted
    /\ accepted = {Long(3), Long(4), Long(5)}
          => usedSeqs = <<[min |-> Long(3), max |-> Long(5)]>>

\* use(3), use(5), use(4): the last call joins [3,3] and [5,5] into [3,5].
C14_Witness ==
    /\ lastUse.before = <<[min |-> Long(3), max |-> Long(3)],
                          [min |-> Long(5), max |-> Long(5)]>>
    /\ lastUse.value = Long(4)
    /\ lastUse.result = "true"
    /\ usedSeqs = <<[min |-> Long(3), max |-> Long(5)]>>

\* C15: use decides as on unsigned numbers: it returns false exactly when
\* one of the ranges holds the value, counted as unsigned 64-bit numbers, so
\* a value from 2^63 on that is in no range is accepted next to smaller
\* recorded values, and a small one next to recorded values from 2^63 on.
C15_UnsignedCompare ==
    lastUse.result # "" =>
        ((lastUse.result = "false") <=> Covered(lastUse.before, lastUse.value))

\* The stored state records the seq for the server.
Recorded(file, serverId, seq) ==
    /\ file.exists
    /\ file.parses
    /\ serverId \in DOMAIN file.servers
    /\ FromProto(file.servers[serverId]).ok
    /\ Covered(FromProto(file.servers[serverId]).usedSeqs, seq)

\* The notifications shown for the message of a server with a seq.
ShownFor(serverId, seq) ==
    {i \in 1..Len(shown) : shown[i].serverId = serverId /\ shown[i].seq = seq}

\* A step of onHandleIntent up to the decision of checkSeq, on the intent.
HandledReading(intent, faults) ==
    /\ rpc.pc = "idle"
    /\ rlog'.intent = intent
    /\ rlog'.outcome \notin {"", "shown", "killed"}
    /\ \E readFault \in faults, writeFault \in WriteFaults :
          OnHandleIntent(intent, readFault, writeFault)

\* The step is a handler run for the intent, whatever happens to its reads.
Handled(intent) == HandledReading(intent, ReadFaults)

\* C16: a message delivered more than once is surfaced to the user at most
\* once, also when the state is written and read again between deliveries
\* and when the receiver's process restarts in between.
C16_SurfacedAtMostOnce ==
    \A sid \in ServerIds, q \in Seqs : Cardinality(ShownFor(sid, Long(q))) <= 1

\* C17: a notification for a message is shown only when a state that holds
\* its seq for its server has been stored, and a handler whose store fails
\* shows no notification for the message.
C17_StoredBeforeShown ==
    [][/\ ShowNotification =>
             Recorded(stateFile, rpc.message.serverId, rpc.message.seq)
       /\ \A intent \in ValidIntents :
             (Handled(intent) /\ rlog'.outcome = "unwritten") => rpc'.pc = "idle"]_vars

\* C18: a payload that is missing, not base64, no envelope, sealed under
\* another key or changed after sealing is discarded: the handler returns
\* without an escaping exception, the replay state stays as it was and no
\* notification is shown.
C18_BadPayloadDiscarded ==
    [][\A intent \in BadIntents :
          Handled(intent) => /\ rlog'.outcome \in Caught
                             /\ stateFile' = stateFile
                             /\ shown' = shown
                             /\ rpc'.pc = "idle"]_vars

\* C19: a message whose seq was accepted before for its server is dropped
\* in silence: no notification for it, no error notification, and no write
\* of the state.
C19_ReplayDropped ==
    [][\A intent \in ValidIntents :
          (/\ Handled(intent)
           /\ ShownFor(MessageOf(intent).serverId, MessageOf(intent).seq) # {}
           /\ rlog'.outcome # "unreadable")
          => /\ rlog'.outcome = "replay"
             /\ rpc'.pc = "idle"
             /\ shown' = shown
             /\ stateFile' = stateFile]_vars

NonceSeqs == {1, 2, 255, 256, 257, 65535, 65536, 16777215, 16777216, 2147483647}

\* The server ID and the seq a nonce was built from.
NonceServerID(nonce) == SubSeq(nonce, 1, serverIDSize)
NonceSeq(nonce) == Uint64(SubSeq(nonce, serverIDSize + 1, serverIDSize + 8))

\* C21: under one server ID two different seqs give two different nonces,
\* and a nonce determines the server ID and the seq it was built from: for
\* the nonce of every committed enqueue, and for seqs around the byte
\* borders of the encoding.
C21_NonceInjective ==
    /\ \A i, j \in 1..Len(alloc) :
          (alloc[i].serverID = alloc[j].serverID /\ alloc[i].seq # alloc[j].seq)
              => alloc[i].payload.nonce # alloc[j].payload.nonce
    /\ \A i \in 1..Len(alloc) :
          /\ Len(alloc[i].payload.nonce) = serverIDSize + 8
          /\ NonceServerID(alloc[i].payload.nonce) = alloc[i].serverID
          /\ NonceSeq(alloc[i].payload.nonce) = alloc[i].seq
    /\ \A sid \in ServerIds, q1, q2 \in NonceSeqs :
          /\ NonceSeq(Nonce(sid, q1)) = q1
          /\ NonceServerID(Nonce(sid, q1)) = sid
          /\ q1 # q2 => Nonce(sid, q1) # Nonce(sid, q2)

\* Two enqueues committed under one server ID and both envelopes reached the
\* gateway.
C21_Witness ==
    /\ Len(alloc) = 2
    /\ alloc[1].serverID = alloc[2].serverID
    /\ \A i \in 1..2 : alloc[i].payload \in gw

\* C22: the cached key follows the password and the registration id: when
\* no store call is between its write of the preferences and its delete of
\* the cache, a cached key that is present is the key derived from the
\* password and the registration id the preferences hold, whatever getKey
\* calls ran alongside; and a getKey call that missed the cache writes the
\* key derived from the preferences it read.
C22_CachedKeyCurrent ==
    /\ []((storeCall = "idle" /\ keyCache.exists) => keyCache.key = DeriveKey(prefs))
    /\ [][(keyCall.pc = "derive" /\ keyCall'.pc = "store")
              => keyCall'.key = DeriveKey(prefs)]_vars
    /\ [][(keyCall.pc = "store" /\ keyCache' # keyCache)
              => keyCache' = [exists |-> TRUE, key |-> keyCall.key]]_vars

\* C23: the goroutines do not wait for one another.  Whatever the other
\* goroutines do, sleeping out a backoff included, a goroutine that is at a
\* transaction can run it, one that is at its gateway call can make it, and
\* one that has posted can remove its message; and the step of a goroutine
\* changes no other goroutine, unless it is the step that ends the process.
C23_TasksIndependent ==
    /\ [](\A s \in Seqs :
            /\ (up /\ task[s].pc = "tx")
                  => ENABLED (Attempt(s, "none", TRUE) /\ UNCHANGED <<rvars, fvars>>)
            /\ (up /\ task[s].pc = "sleep")
                  => ENABLED (Sleep(s) /\ UNCHANGED <<rvars, fvars>>)
            /\ (up /\ task[s].pc = "post")
                  => ENABLED (Post(s, TRUE, TRUE) /\ UNCHANGED <<rvars, fvars>>)
            /\ (up /\ task[s].pc = "remove")
                  => ENABLED (Remove(s, "none", TRUE) /\ UNCHANGED <<rvars, fvars>>))
    /\ [][\A s, t \in Seqs :
            (up /\ up' /\ s # t /\ task[s].pc # "none" /\ task'[s] # task[s])
                => task'[t] = task[t]]_vars

\* The second message was delivered and removed while the goroutine of the
\* first, after a failed call, is in the wait before its second call.
C23_Witness ==
    /\ up
    /\ outcome[2] = "delivered"
    /\ 2 \notin Pending(db)
    /\ 1 \in Pending(db)
    /\ fails[1] = 1
    /\ task[1].pc = "post"
    /\ task[1].waitTime = waits[2]

\* C24: the transactions of the callers and of the goroutines, in whatever
\* order they run, act on the store one after the other.  A committed
\* enqueue gets a seq no enqueue got before and puts its message under a
\* key that is not in the store; no step changes the payload of a message
\* in the store; and the attempt counter of a message goes up by one with
\* each committed read-and-update transaction of its own goroutine, which
\* reads the counter the store holds, and changes with no other step.
C24_StoreSerialized ==
    [][ /\ (Len(alloc') > Len(alloc))
            => LET new == alloc'[Len(alloc')]
               IN  /\ \A i \in 1..Len(alloc) : alloc[i].seq # new.seq
                   /\ PutUint64(new.seq) \notin DOMAIN db.messages
                   /\ db'.messages[PutUint64(new.seq)].payload = new.payload
        /\ \A k \in (DOMAIN db.messages) \cap (DOMAIN db'.messages) :
              db'.messages[k].payload = db.messages[k].payload
        /\ \A s \in Pending(db) \cap Pending(db') :
              IF up /\ task[s].pc = "tx" /\ task'[s].pc = "sleep"
              THEN /\ Attempts(db', s) = Attempts(db, s) + 1
                   /\ task'[s].sendAttempts = Attempts(db, s)
              ELSE Attempts(db', s) = Attempts(db, s)
      ]_vars

\* Both messages are in the store; the goroutine of the first has run two
\* read-and-update transactions and that of the second one.
C24_Witness ==
    /\ Len(alloc) = 2
    /\ Pending(db) = {1, 2}
    /\ Attempts(db, 1) = 2
    /\ Attempts(db, 2) = 1
    /\ task[1].pc = "sleep"
    /\ task[2].pc = "sleep"

\* C25: a startup whose initialisation of the state database fails ends the
\* process: it does not begin to serve, starts no goroutine and leaves the
\* database as it was.  A process that does not serve has no goroutine, and
\* no request is answered, no message enqueued and no gateway call made
\* unless the process serves.
C25_StartupFatal ==
    /\ [](~up => \A s \in Seqs : task[s].pc = "none")
    /\ [][ /\ (~up /\ errs' > errs)
               => /\ ~up'
                  /\ \A s \in Seqs : task'[s].pc = "none"
                  /\ UNCHANGED <<db, alloc, reply, lastReply, gw, calls>>
           /\ (alloc' # alloc \/ reply' # reply \/ lastReply' # lastReply
                 \/ calls' # calls \/ gw' # gw)
               => up
         ]_vars

\* The process was killed with the first message pending, and the next
\* startup failed: no goroutine runs for the message.
C25_Witness ==
    /\ ~up
    /\ errs = 1
    /\ txErr = {}
    /\ lastReply = ""
    /\ 1 \in Pending(db)
    /\ 1 \in resumed
    /\ calls[1] = 3

\* C26: a goroutine whose transaction reads attempts >= 11 deletes the
\* message in that transaction and then stops: it makes no gateway call,
\* the process goes on serving, and the other goroutines are where they
\* were.
C26_ExhaustedStops ==
    [][\A s \in Seqs :
          /\ (up /\ task[s].pc = "tx" /\ task'[s] # task[s]
                 /\ s \in Pending(db) /\ Attempts(db, s) >= Len(waits))
                => /\ s \notin Pending(db')
                   /\ outcome'[s] = "exhausted"
                   /\ calls' = calls
          /\ (up /\ task[s].pc = "sleep" /\ task'[s] # task[s]
                 /\ task[s].sendAttempts >= Len(waits))
                => /\ up'
                   /\ task'[s].pc = "none"
                   /\ calls' = calls
                   /\ \A t \in Seqs \ {s} : task'[t] = task[t]
      ]_vars

\* C27: the counter is written before the wait and before the call.  A
\* goroutine that is in its wait or at its gateway call has its message in
\* the store with the counter one above the number it read, and the gateway
\* calls made for a message in the store never exceed its counter, kills
\* and restarts included.
C27_CountedBeforeCall ==
    \A s \in Seqs :
        /\ s \in Pending(db) => calls[s] <= Attempts(db, s)
        /\ (task[s].pc \in {"sleep", "post"} /\ task[s].sendAttempts < Len(waits))
              => /\ s \in Pending(db)
                 /\ Attempts(db, s) = task[s].sendAttempts + 1
                 /\ calls[s] < Attempts(db, s)

\* After two gateway calls and kills during the waits, the resumed
\* goroutine is in its wait with the counter ahead of the calls by two.
C27_Witness ==
    /\ up
    /\ 1 \in resumed
    /\ 1 \in Pending(db)
    /\ calls[1] = 2
    /\ Attempts(db, 1) = 4
    /\ task[1].pc = "post"
    /\ task[1].waitTime = waits[4]

\* C28: a use call that returns false leaves the set as it was before the
\* call, on the path that finds the value under the floor and on the one
\* that finds it at the ceiling.
C28_RejectLeavesSet ==
    lastUse.result = "false" => usedSeqs = lastUse.before

\* A value below 2^63 is refused at the ceiling test by a set of two ranges
\* from 2^63 on, and the two ranges are still there.
C28_Witness ==
    /\ lastUse.result = "false"
    /\ Len(lastUse.before) = 2
    /\ lastUse.value = Long(3)
    /\ Floor(lastUse.before, [min |-> lastUse.value, max |-> lastUse.value]) = 0
    /\ usedSeqs = lastUse.before

\* C29 as claimed: a message that is no longer in the store had a
\* successful gateway call or 11 failed ones.
C29_DeletedOnDeliveryOrExhaustion ==
    \A s \in Seqs :
        (Allocated(s) /\ s \notin Pending(db))
            => (calls[s] > fails[s] \/ fails[s] >= Len(waits))

\* C29 as amended: a message leaves the store only by a step of its own
\* goroutine: the removal after a successful gateway call, or the
\* transaction that reads a persisted counter of 11.  Kills and restarts
\* delete nothing.
C29_DeletedOnDeliveryOrCounter ==
    [][\A s \in Pending(db) \ Pending(db') :
          \/ up /\ task[s].pc = "remove" /\ calls[s] > fails[s]
          \/ up /\ task[s].pc = "tx" /\ Attempts(db, s) = Len(waits)
      ]_vars

\* The message was removed as exhausted after fewer than 11 gateway calls:
\* kills during the waits used up the rest of the counter.
C29_Witness ==
    /\ outcome[1] = "exhausted"
    /\ 1 \notin Pending(db)
    /\ calls[1] = fails[1]
    /\ fails[1] < Len(waits)

C31_ProtoRoundTrip ==
    /\ FromProto(ToProto(usedSeqs)).ok
    /\ FromProto(ToProto(usedSeqs)).usedSeqs = usedSeqs

\* C32: over all runs of the process, the gateway calls made for one message
\* never exceed 11, the length of the schedule; the persisted counter of a
\* pending message never exceeds 11 and never decreases, and a message that
\* left the store does not come back with a new counter.
C32_CallsAndCounterBounded ==
    /\ [](\A s \in Seqs :
            /\ calls[s] <= Len(waits)
            /\ s \in Pending(db) => Attempts(db, s) \in 0..Len(waits))
    /\ [][\A s \in Seqs :
            /\ calls'[s] >= calls[s]
            /\ (s \in Pending(db) /\ s \in Pending(db'))
                  => Attempts(db', s) >= Attempts(db, s)
            /\ (Allocated(s) /\ s \notin Pending(db)) => s \notin Pending(db')
         ]_vars

\* The eleventh gateway call of a message was made by a goroutine that a
\* restart started; the counter is at 11 and the message is still pending.
C32_Witness ==
    /\ up
    /\ 1 \in resumed
    /\ 1 \in Pending(db)
    /\ calls[1] = Len(waits)
    /\ Attempts(db, 1) = Len(waits)

\* The sequence number of the enqueue that the step commits.
Enqueued == alloc'[Len(alloc')].seq

\* C33: at most one sendPayload goroutine exists for a sequence number.  A
\* goroutine comes into being only in a committed enqueue, for the seq this
\* enqueue allocated, or at a process start, for a seq pending in the store;
\* the seq a committed enqueue allocated was not pending and had no
\* goroutine, and a process that starts has no goroutine left from before.
C33_OneTaskPerSeq ==
    /\ [](~up => \A s \in Seqs : task[s].pc = "none")
    /\ [][ /\ \A s \in Seqs :
                (task[s].pc = "none" /\ task'[s].pc # "none")
                    => /\ task'[s] = NewTask
                       /\ \/ /\ up /\ up'
                             /\ Len(alloc') = Len(alloc) + 1
                             /\ Enqueued = s
                          \/ /\ ~up /\ up'
                             /\ s \in Pending(db)
           /\ Len(alloc') > Len(alloc)
                 => /\ task[Enqueued].pc = "none"
                    /\ Enqueued \notin Pending(db)
                    /\ \A t \in Seqs \ {Enqueued} : task'[t] = task[t]
         ]_vars

\* After a restart the goroutine of message 1 is the one main started, the
\* goroutine of message 2 is the one its enqueue started, and both run.
C33_Witness ==
    /\ up
    /\ resumed = {1}
    /\ task[1].pc # "none"
    /\ task[2].pc # "none"
    /\ Pending(db) = {1, 2}

\* The envelope that the committed enqueue of s stored.
Envelope(s) == (CHOOSE e \in {alloc[i] : i \in 1..Len(alloc)} : e.seq = s).payload

\* C34: the envelope of a pending message is never changed after the
\* enqueue stored it: the stored payload of every pending message is the
\* one of its enqueue, a goroutine that waits or posts holds that payload,
\* and every gateway call made for a seq, in the first run of the process or
\* after a restart, hands over that nonce and that ciphertext and no other.
C34_EnvelopeFrozen ==
    /\ [](\A s \in Seqs :
            /\ s \in Pending(db)
                  => /\ Allocated(s)
                     /\ db.messages[PutUint64(s)].payload = Envelope(s)
                     /\ Envelope(s).nonce = Nonce(db.serverID, s)
            /\ (task[s].pc \in {"sleep", "post"} /\ task[s].sendAttempts < Len(waits))
                  => task[s].payload = Envelope(s))
    /\ [][\A s \in Seqs :
            /\ (s \in Pending(db) /\ s \in Pending(db'))
                  => db'.messages[PutUint64(s)].payload = db.messages[PutUint64(s)].payload
            /\ calls'[s] > calls[s] => gw' = gw \cup {Envelope(s)}
         ]_vars

\* Message 1 went to the gateway three times, the last time from a
\* goroutine that a restart started; the gateway saw one envelope only.
C34_Witness ==
    /\ up
    /\ 1 \in resumed
    /\ 1 \in Pending(db)
    /\ calls[1] = 3
    /\ Attempts(db, 1) > 3
    /\ gw = {Envelope(1)}

\* The step is a read-and-update transaction of the goroutine of s that fails.
TxFailed(s) == task[s].pc = "tx" /\ task'[s] # task[s] /\ errs' > errs /\ up'

\* C35: when the read-and-update transaction of a goroutine fails, the
\* goroutine ends without a gateway call and the store is what it was before
\* the transaction, the entry of the message and its counter included; the
\* entry then stays as it is while no goroutine exists for it, and the next
\* process start finds it pending and starts a goroutine for it.  The
\* transaction answers with an error and an unchanged store also when the
\* bucket or the entry is missing.
C35_FailedTxLeavesMessage ==
    /\ [](\A s \in Seqs :
            /\ AttemptTx([db EXCEPT !.buckets = {}], PutUint64(s), "none").err # ""
            /\ AttemptTx([db EXCEPT !.buckets = {}], PutUint64(s), "none").db
                   = [db EXCEPT !.buckets = {}]
            /\ AttemptTx(Delete(db, PutUint64(s)), PutUint64(s), "none").err # ""
            /\ AttemptTx(Delete(db, PutUint64(s)), PutUint64(s), "none").db
                   = Delete(db, PutUint64(s)))
    /\ [][\A s \in Seqs :
            /\ TxFailed(s)
                  => /\ task'[s] = NoTask
                     /\ db' = db
                     /\ s \in Pending(db')
                     /\ gw' = gw /\ calls' = calls
                     /\ s \in txErr'
            /\ (s \in Pending(db) /\ task[s].pc = "none" /\ calls'[s] = calls[s])
                  => /\ s \in Pending(db')
                     /\ db'.messages[PutUint64(s)] = db.messages[PutUint64(s)]
            /\ (s \in Pending(db) /\ task[s].pc = "none") => calls'[s] = calls[s]
            /\ (s \in Pending(db) /\ ~up /\ up') => task'[s] = NewTask
         ]_vars

\* The second transaction of message 1 failed after one failed gateway
\* call; the goroutine is gone, the message is pending with the counter at
\* 1, and after a kill and a restart a new goroutine is at its transaction.
C35_Witness ==
    /\ up
    /\ 1 \in txErr
    /\ 1 \in resumed
    /\ 1 \in Pending(db)
    /\ calls[1] = 1 /\ fails[1] = 1
    /\ Attempts(db, 1) = 1
    /\ task[1].pc = "tx"

\* C36: the receiver fails closed on replay state it cannot read.  When the
\* state file exists and cannot be opened, read or parsed, checkSeq refuses
\* the message, the handler does not go on to show it, and the file is left
\* as it is; only a file that does not exist is taken for an empty state.
C36_FailsClosed ==
    [][\A intent \in ValidIntents, readFault \in ReadFaults, writeFault \in WriteFaults :
          (/\ OnHandleIntent(intent, readFault, writeFault)
           /\ stateFile.exists
           /\ (readFault # "none" \/ ~stateFile.parses))
              => /\ rlog'.outcome = "unreadable"
                 /\ rpc'.pc = "idle"
                 /\ stateFile' = stateFile
      ]_vars

TypeOK ==
    /\ up \in BOOLEAN
    /\ db.sequence \in {0} \cup Seqs
    /\ \A s \in Seqs : task[s].pc \in {"none", "tx", "sleep", "post", "remove"}
    /\ \A s \in Seqs : calls[s] \in 0..Len(waits) /\ fails[s] \in 0..calls[s]
====
